---------------------------- MODULE Spec2Model ----------------------------
(***************************************************************************)
(* Model of the download orchestrator of youtube-video-downloader:         *)
(*   backend/app/services/yt_dlp_service.py   (YtDlpService)               *)
(*   backend/app/services/download_tasks.py   (DownloadTask)               *)
(*   backend/app/api/v1/endpoints/videos.py   (_stream_file)               *)
(*                                                                         *)
(* Strings of the program are modelled as sequences of tokens: a URL is a  *)
(* sequence of whitespace / scheme / "://" / host / path tokens, a format  *)
(* selector is a sequence of characters.  Percentages and task.progress    *)
(* are fixed-point numbers in hundredths of a percent (92.0 is 9200).      *)
(***************************************************************************)
EXTENDS Integers, Sequences, FiniteSets, TLC

VARIABLES
    \* ---- configuration (app/core/config.py) and the request ----
    allowed,        \* settings.allowed_schemes_list
    block,          \* settings.BLOCK_PRIVATE_NETWORKS
    op,             \* which operation this run exercises
    url,            \* the url argument
    format_id,      \* the format_id argument
    \* ---- the calling thread (the operation's own control flow) ----
    pc,             \* position of the calling thread
    exc,            \* exception that left the operation (NoExc if none)
    ret,            \* value the operation returned (NoneRet if none)
    validated,      \* which of {"format", "url"} checks have succeeded so far
    spawned,        \* number of subprocesses this invocation has started
    cause,          \* which failure branch the calling thread is in
    \* ---- the yt-dlp subprocess and the file system ----
    proc,           \* "none" | "running" | "exited" | "killed"
    return_code,    \* exit status of the subprocess (-1 while unknown)
    pipe,           \* stdout lines written by the subprocess, not yet read
    transcript,     \* every line the subprocess has written so far
    max_lines,      \* length of the longest transcript explored in this run
    tdir,           \* the temp directory: "absent" | "exists" | "removed"
    files,          \* what the subprocess left in it: "none"|"hidden"|"one"
    \* ---- the stdout reader thread (_read_stdout) ----
    rpc,            \* position of the reader thread
    line,           \* the line it is processing
    stream_index,   \* nonlocal stream_index
    \* ---- the DownloadTask ----
    task,
    \* ---- the format service: catalog builder and result cache ----
    raw_formats,    \* info["formats"]: the raw records the engine returned
    formats,        \* the list _extract_video_info / _sort_formats works on
    merged_formats, \* the entries _create_merged_formats returned
    ttl_seconds,    \* settings.YTDLP_FORMATS_CACHE_TTL_SECONDS
    maxsize,        \* settings.YTDLP_FORMATS_CACHE_MAXSIZE
    formats_cache,  \* YtDlpService._formats_cache (NoCache until first use)
    now,            \* the monotonic clock the cache reads
    calls,          \* number of service calls made so far
    engine_calls,   \* number of ydl.extract_info calls made so far
    \* ---- download_video_post and the piped stream (_stream_download) ----
    catalog,        \* video_info of download_video_post (None before)
    stderr_written, \* number of bytes the subprocess has written to stderr
    stderr_pipe,    \* the bytes in the stderr pipe, not yet read
    stderr_buffer,  \* stderr_buffer = bytearray()
    stderr_stop,    \* stderr_stop = threading.Event()
    dpc,            \* position of the drainer thread (_drain_stderr_blocking)
    pipes_open,     \* which of process.stdout / process.stderr are open
    reaped,         \* the exit status of the subprocess has been collected
    engine,         \* what ydl.extract_info did in the last fetch_formats call
    \* ---- the task registry (download_tasks.py) ----
    lock_owner,     \* the thread holding download_tasks._lock ("none" if free)
    _tasks,         \* _tasks: task id -> number of its record (0: no entry)
    heap,           \* the DownloadTask records ever created, by number
    dl,             \* the tracked download of each record
    dirs,           \* the temp directories on disk, named by record number
    swpc,           \* position of cleanup_stale
    stale_ids,      \* stale_ids of cleanup_stale, the part not yet handled
    sw_task,        \* task = remove_task(tid) of cleanup_stale (0: None)
    got,            \* what the last get_task / remove_task call returned
    \* ---- build_download_command ----
    settings        \* the settings build_download_command reads

catvars  == <<raw_formats, formats, merged_formats>>
cachevars == <<ttl_seconds, maxsize, formats_cache, now, calls, engine_calls>>
strvars  == <<catalog, stderr_written, stderr_pipe, stderr_buffer,
              stderr_stop, dpc, pipes_open, reaped, engine, lock_owner>>
\* settings, the request and the format service state: nothing a download
\* operation assigns
regvars  == <<_tasks, heap, dl, dirs, swpc, stale_ids, sw_task, got,
              settings>>
cfgvars  == <<allowed, block, regvars, strvars, op, url, format_id, catvars,
              cachevars>>
supvars  == <<pc, exc, ret, validated, spawned, cause>>
supvars_but_pc == <<exc, ret, validated, spawned, cause>>
procvars == <<proc, return_code, pipe, transcript, max_lines, tdir, files>>
rdvars   == <<rpc, line, stream_index>>
vars     == <<allowed, block, op, url, format_id, pc, exc, ret, validated,
              spawned, cause, proc, return_code, pipe, transcript, max_lines,
              tdir, files, rpc, line, stream_index, task, raw_formats,
              formats, merged_formats, ttl_seconds, maxsize, formats_cache,
              now, calls, engine_calls, catalog, stderr_written,
              stderr_pipe, stderr_buffer, stderr_stop, dpc, pipes_open, reaped,
              engine, lock_owner, _tasks, heap, dl, dirs, swpc,
              stale_ids, sw_task, got, settings>>

-----------------------------------------------------------------------------
(* Bounds of the model                                                     *)

\* longest stdout transcript explored for a tracked download on its own
MaxLines == 3

\* longest stdout transcript explored when all three operations and all
\* requests are explored together
OpsLines == 1

-----------------------------------------------------------------------------
(* Text helpers                                                            *)

\* str.lower() on the tokens the model uses
lower(s) ==
    CASE s = "HTTP"      -> "http"
      [] s = "HTTPS"     -> "https"
      [] s = "FTP"       -> "ftp"
      [] s = "LOCALHOST" -> "localhost"
      [] s = "LocalHost" -> "localhost"
      [] s = "[FE80::1]" -> "[fe80::1]"
      [] OTHER           -> s

\* characters str.strip() removes
Whitespace == {" ", "\t", "\n"}

RECURSIVE lstrip(_)
lstrip(s) ==
    IF s # <<>> /\ Head(s) \in Whitespace THEN lstrip(Tail(s)) ELSE s

RECURSIVE rstrip(_)
rstrip(s) ==
    IF s # <<>> /\ s[Len(s)] \in Whitespace
    THEN rstrip(SubSeq(s, 1, Len(s) - 1))
    ELSE s

\* str.strip()
strip(s) == rstrip(lstrip(s))

-----------------------------------------------------------------------------
(* URL gate: YtDlpService.normalize_url                                    *)

BLOCKED_HOSTNAMES == {"localhost", "127.0.0.1", "0.0.0.0", "::1"}

\* host tokens of the model
PublicHosts == {"example.com", "8.8.8.8"}
LocalAliases == {"localhost", "LOCALHOST", "LocalHost"}
IpLiterals == {"127.0.0.1", "0.0.0.0", "[::1]", "10.0.0.1", "192.168.1.1",
               "169.254.1.1", "[fe80::1]", "[FE80::1]", "8.8.8.8"}
HostTokens == PublicHosts \cup LocalAliases \cup IpLiterals

\* urlparse(url): the scheme (lower-cased by urlparse) is the token before
\* "://"; the netloc is the token after it when that is a host token
urlparse_scheme(u) ==
    IF Len(u) >= 2 /\ u[2] = "://" THEN lower(u[1]) ELSE ""

\* ParseResult.hostname: lower-cased, IPv6 brackets removed, None when absent
urlparse_hostname(u) ==
    IF Len(u) >= 3 /\ u[2] = "://" /\ u[3] \in HostTokens
    THEN LET h == lower(u[3]) IN
         CASE h = "[::1]"     -> "::1"
           [] h = "[fe80::1]" -> "fe80::1"
           [] OTHER           -> h
    ELSE "None"

\* ipaddress.ip_address(hostname): raises ValueError for a non-literal
is_ip_literal(h) ==
    h \in {"127.0.0.1", "0.0.0.0", "::1", "10.0.0.1", "192.168.1.1",
           "169.254.1.1", "fe80::1", "8.8.8.8"}
\* ip.is_private or ip.is_loopback or ip.is_link_local
ip_is_loopback(h)   == h \in {"127.0.0.1", "::1"}
ip_is_link_local(h) == h \in {"169.254.1.1", "fe80::1"}
ip_is_private(h)    == h \in {"127.0.0.1", "0.0.0.0", "::1", "10.0.0.1",
                              "192.168.1.1", "169.254.1.1", "fe80::1"}

Ok(v)       == [ok |-> TRUE, value |-> v, error |-> "none", msg |-> ""]
Raise(e, m) == [ok |-> FALSE, value |-> <<>>, error |-> e, msg |-> m]

\* faulty variant: the private-network test reads the host token as written
\* (not lower-cased, brackets kept)
normalize_url_raw_host(u, schemes, blk) ==
    LET s == strip(u)
        raw == IF Len(s) >= 3 THEN s[3] ELSE "None"
    IN  IF urlparse_scheme(s) \notin schemes
        THEN Raise("InvalidUrlError", "URL scheme not allowed")
        ELSE IF urlparse_hostname(s) = "None"
        THEN Raise("InvalidUrlError", "URL must have a valid hostname")
        ELSE IF blk /\ (raw \in BLOCKED_HOSTNAMES \/
                        (is_ip_literal(raw) /\ ip_is_private(raw)))
        THEN Raise("InvalidUrlError", "Private network URLs are not allowed")
        ELSE Ok(s)

\* YtDlpService.normalize_url(url) under the given settings
normalize_url(u, schemes, blk) ==
    LET s == strip(u)
        scheme == urlparse_scheme(s)
        hostname == urlparse_hostname(s)
    IN  IF scheme \notin schemes
        THEN Raise("InvalidUrlError", "URL scheme not allowed")
        ELSE IF hostname = "None"
        THEN Raise("InvalidUrlError", "URL must have a valid hostname")
        ELSE IF blk /\ is_ip_literal(hostname)
                    /\ (ip_is_private(hostname) \/ ip_is_loopback(hostname)
                        \/ ip_is_link_local(hostname))
        THEN Raise("InvalidUrlError", "Private network URLs are not allowed")
        ELSE IF blk /\ hostname \in BLOCKED_HOSTNAMES
        THEN Raise("InvalidUrlError", "Localhost URLs are not allowed")
        ELSE Ok(s)

-----------------------------------------------------------------------------
(* Format selector check: FORMAT_ID_PATTERN.match(format_id)               *)

Digits == {"0", "1", "2", "3", "4", "5", "6", "7", "8", "9"}
Letters == {"a", "b", "e", "s", "t", "v", "c", "A", "Z"}
SelectorSymbols == {"+", "[", "]", "<", ">", "=", "^", ":", "/", "-", "_", "."}
\* the character class [a-zA-Z0-9+\[\]<>=^:/\-_.]
FormatIdChars == Digits \cup Letters \cup SelectorSymbols

\* the tokens of catalog ids: each is a run of characters of the class
ClassTokens ==
    { "22", "140", "999", "best", "bestvideo", "bestaudio", "[vcodec^=avc1]",
      "[vcodec^=avc]", "[acodec^=mp4a]", "[acodec^=mp4]", "[height<=", "]",
      "2160", "1440", "1080", "720", "480" }

\* re.compile(r"^[a-zA-Z0-9+\[\]<>=^:/\-_.]+$").match(s): one or more class
\* characters; Python's $ matches at the end of the string and also just
\* before a newline that ends the string
FORMAT_ID_PATTERN_match(s) ==
    LET body == IF s # <<>> /\ s[Len(s)] = "\n"
                THEN SubSeq(s, 1, Len(s) - 1) ELSE s
    IN  /\ Len(body) >= 1
        /\ \A i \in 1..Len(body) : body[i] \in FormatIdChars \cup ClassTokens

-----------------------------------------------------------------------------
(* Requests, results and the task record                                   *)

NoExc   == [type |-> "none", msg |-> ""]
NoneRet == [kind |-> "None", value |-> <<>>, dir |-> "None"]

\* "+" in format_id
is_two_stream(f) == \E i \in 1..Len(f) : f[i] = "+"

\* format selectors of the model: single stream, two-stream, empty, and
\* selectors carrying a character outside the class
FormatIds == { <<"2", "2">>, <<"1", "+", "2">>, <<>>, <<"2", ";">>,
               <<"2", " ">>, <<"2", "\n">> }

\* urls of the download operations: accepted, bad scheme, loopback alias
DownloadUrls == { <<"https", "://", "example.com", "/v">>,
                  <<" ", "ftp", "://", "example.com", "/v">>,
                  <<"http", "://", "LocalHost", "/v", "\n">> }

\* DownloadTask(task_id=...) as create_task builds it
NewTask == [status |-> "pending", phase |-> "", progress |-> 0,
            speed |-> "", eta |-> "", file_path |-> "None",
            temp_dir |-> "None", file_size |-> 0, downloaded_bytes |-> 0,
            total_bytes |-> 0, error |-> "None"]

\* name of the temp directory mkdtemp returns, of the file yt-dlp writes in
\* it, and os.path.getsize of that file
TempDirName == "ytdl_x"
OutFileName == "ytdl_x/id.mp4"
OutFileSize == 7

\* stdout lines of yt-dlp --newline --progress, after line.strip():
\*   dest    "[download] Destination: ..."
\*   merger  "[Merger] Merging formats into ..."
\*   pct     "[download]  NN.N% of SIZE at RATE ETA T" (size 0: no "of"
\*           token; rate FALSE: no "at"/"ETA" tokens)
\*   badpct  "[download] 1.2.3%": matches _PROGRESS_PCT_RE, float() raises
\*   other   a line no pattern matches, or a blank line
DestLine   == [kind |-> "dest",   raw |-> 0, size |-> 0, rate |-> FALSE]
MergerLine == [kind |-> "merger", raw |-> 0, size |-> 0, rate |-> FALSE]
BadPctLine == [kind |-> "badpct", raw |-> 0, size |-> 0, rate |-> FALSE]
OtherLine  == [kind |-> "other",  raw |-> 0, size |-> 0, rate |-> FALSE]
PctLine(r, sz, rt) == [kind |-> "pct", raw |-> r, size |-> sz, rate |-> rt]
Lines == { DestLine, MergerLine, BadPctLine, OtherLine,
           PctLine(50, 0, FALSE), PctLine(100, 1000, TRUE) }
NoLine == [kind |-> "none", raw |-> 0, size |-> 0, rate |-> FALSE]

Min(a, b) == IF a <= b THEN a ELSE b

-----------------------------------------------------------------------------
(* Initial states                                                          *)

\* the task ids of the model, and an empty registry
TaskIds == {"a", "b"}
NoTasks == [id \in TaskIds |-> 0]
NoGot   == [call |-> "none", id |-> "", rec |-> 0]

\* the settings build_download_command reads, at their defaults (config.py)
DefaultSettings ==
    [sleep_requests |-> FALSE, user_agent |-> FALSE, prefer_free |-> TRUE,
     http_chunk_size |-> TRUE, sponsorblock |-> FALSE, cookies |-> FALSE,
     proxy |-> FALSE]

\* no fetch_formats call has consulted the engine
EngineIdle == [kind |-> "none", info |-> <<>>, class |-> "none", msg |-> ""]

\* state shared by every operation before it runs, the settings aside
IdleRun ==
    /\ exc = NoExc /\ ret = NoneRet /\ validated = {} /\ spawned = 0
    /\ cause = "none"
    /\ proc = "none" /\ return_code = -1 /\ pipe = <<>> /\ transcript = <<>>
    /\ tdir = "absent" /\ files = "none"
    /\ rpc = "idle" /\ line = NoLine /\ stream_index = -1
    /\ task = NewTask
    /\ catalog = NoneRet
    /\ stderr_written = 0 /\ stderr_pipe = <<>> /\ stderr_buffer = <<>>
    /\ stderr_stop = FALSE /\ dpc = "idle"
    /\ pipes_open = {} /\ reaped = FALSE
    /\ engine = EngineIdle
    /\ lock_owner = "none"
    /\ _tasks = NoTasks /\ heap = <<>> /\ dl = <<>> /\ dirs = {}
    /\ swpc = "idle" /\ stale_ids = <<>> /\ sw_task = 0
    /\ got = NoGot

\* state shared by every operation before it runs
Idle == IdleRun /\ settings = DefaultSettings

\* the format service untouched: no catalog being built, the cache never
\* used (the default settings, 600 s and 128 entries, scaled down)
NoCache == [created |-> FALSE, maxsize |-> 0, ttl |-> 0, links |-> <<>>,
            popped |-> 0]

\* the cache settings and state of a service whose cache is never used
CacheIdle ==
    /\ ttl_seconds = 2 /\ maxsize = 2 /\ formats_cache = NoCache /\ now = 0
    /\ calls = 0 /\ engine_calls = 0

ServiceIdle ==
    /\ raw_formats = <<>> /\ formats = <<>> /\ merged_formats = <<>>
    /\ CacheIdle

\* one invocation of one of the three download operations, default settings
\* (ALLOWED_URL_SCHEMES = "http,https"), the task freshly created
Init ==
    /\ allowed = {"http", "https"}
    /\ block \in BOOLEAN
    /\ op \in {"tracked", "merged", "format"}
    /\ url \in DownloadUrls
    /\ format_id \in FormatIds
    /\ pc = "check"
    /\ max_lines = OpsLines
    /\ Idle
    /\ ServiceIdle

\* one tracked download of an accepted request (single-stream or two-stream
\* selector), with longer transcripts
InitTracked ==
    /\ allowed = {"http", "https"}
    /\ block = TRUE
    /\ op = "tracked"
    /\ url = <<"https", "://", "example.com", "/v">>
    /\ format_id \in { <<"2", "2">>, <<"1", "+", "2">> }
    /\ pc = "check"
    /\ max_lines = MaxLines
    /\ Idle
    /\ ServiceIdle

-----------------------------------------------------------------------------
(* YtDlpService.download_merged_with_progress: the calling thread.         *)
(* One action per statement that another thread or a poller can observe.   *)

\* if not FORMAT_ID_PATTERN.match(format_id): task.status = "failed"; return
W_CheckFormat ==
    /\ op = "tracked" /\ pc = "check"
    /\ IF FORMAT_ID_PATTERN_match(format_id)
       THEN /\ validated' = validated \cup {"format"}
            /\ pc' = "normalize"
            /\ UNCHANGED task
       ELSE /\ task' = [task EXCEPT !.status = "failed",
                                    !.error = "Invalid format_id"]
            /\ pc' = "returned"
            /\ UNCHANGED validated
    /\ UNCHANGED <<cfgvars, exc, ret, spawned, cause, procvars, rdvars>>

\* normalized_url = cls.normalize_url(url): InvalidUrlError propagates
W_Normalize ==
    /\ op = "tracked" /\ pc = "normalize"
    /\ LET r == normalize_url(url, allowed, block) IN
       IF r.ok
       THEN /\ validated' = validated \cup {"url"}
            /\ pc' = "mkdtemp"
            /\ UNCHANGED exc
       ELSE /\ exc' = [type |-> r.error, msg |-> r.msg]
            /\ pc' = "raised"
            /\ UNCHANGED validated
    /\ UNCHANGED <<cfgvars, ret, spawned, cause, procvars, rdvars, task>>

\* temp_dir = tempfile.mkdtemp(prefix="ytdl_")
W_Mkdtemp ==
    /\ op = "tracked" /\ pc = "mkdtemp"
    /\ tdir' = "exists"
    /\ pc' = "mark"
    /\ UNCHANGED <<cfgvars, exc, ret, validated, spawned, cause, proc,
                   return_code, pipe, transcript, max_lines, files, rdvars, task>>

\* task.status = "downloading"; task.phase = "video" if is_two_stream else ""
W_MarkDownloading ==
    /\ op = "tracked" /\ pc = "mark"
    /\ task' = [task EXCEPT !.status = "downloading",
                            !.phase = IF is_two_stream(format_id)
                                      THEN "video" ELSE ""]
    /\ pc' = "popen"
    /\ UNCHANGED <<cfgvars, exc, ret, validated, spawned, cause, procvars,
                   rdvars>>

\* process = subprocess.Popen(cmd, stdout=PIPE, ...): the child starts
W_Popen ==
    /\ op = "tracked" /\ pc = "popen"
    /\ proc' = "running"
    /\ spawned' = spawned + 1
    /\ pc' = "start_reader"
    /\ UNCHANGED <<cfgvars, exc, ret, validated, cause, return_code, pipe,
                   transcript, max_lines, tdir, files, rdvars, task>>

\* subprocess.Popen raises OSError (yt-dlp not installed, fork failure); no
\* handler encloses the call, so the exception leaves the operation
W_PopenFails ==
    /\ op = "tracked" /\ pc = "popen"
    /\ exc' = [type |-> "OSError", msg |-> "yt-dlp"]
    /\ pc' = "raised"
    /\ UNCHANGED <<cfgvars, ret, validated, spawned, cause, procvars, rdvars,
                   task>>

\* reader = threading.Thread(target=_read_stdout, daemon=True); reader.start()
W_StartReader ==
    /\ op = "tracked" /\ pc = "start_reader"
    /\ rpc' = "read"
    /\ pc' = "wait"
    /\ UNCHANGED <<cfgvars, exc, ret, validated, spawned, cause, procvars,
                   line, stream_index, task>>

\* return_code = process.wait(timeout=3600) returns: the child has exited
W_Wait ==
    /\ op = "tracked" /\ pc = "wait"
    /\ proc = "exited"
    /\ pc' = "join"
    /\ UNCHANGED <<cfgvars, exc, ret, validated, spawned, cause, procvars,
                   rdvars, task>>

\* except subprocess.TimeoutExpired: process.kill()
W_WaitTimeout ==
    /\ op = "tracked" /\ pc = "wait"
    /\ proc = "running"
    /\ proc' = "killed"
    /\ cause' = "timeout"
    /\ pc' = "fail_rmtree"
    /\ UNCHANGED <<cfgvars, exc, ret, validated, spawned, return_code, pipe,
                   transcript, max_lines, tdir, files, rdvars, task>>

\* reader.join(timeout=5) returns because the reader thread has ended
W_Join ==
    /\ op = "tracked" /\ pc = "join"
    /\ rpc = "done"
    /\ pc' = "check_rc"
    /\ UNCHANGED <<cfgvars, exc, ret, validated, spawned, cause, procvars,
                   rdvars, task>>

\* reader.join(timeout=5) returns after 5 s with the reader still alive
W_JoinTimeout ==
    /\ op = "tracked" /\ pc = "join"
    /\ rpc # "done"
    /\ pc' = "check_rc"
    /\ UNCHANGED <<cfgvars, exc, ret, validated, spawned, cause, procvars,
                   rdvars, task>>

\* if return_code != 0: ...
W_CheckRc ==
    /\ op = "tracked" /\ pc = "check_rc"
    /\ IF return_code # 0
       THEN cause' = "exit" /\ pc' = "fail_rmtree"
       ELSE cause' = cause /\ pc' = "listdir"
    /\ UNCHANGED <<cfgvars, exc, ret, validated, spawned, procvars, rdvars,
                   task>>

\* files = [f for f in os.listdir(temp_dir) if not f.startswith(".")]
\* if not files: ...
W_Listdir ==
    /\ op = "tracked" /\ pc = "listdir"
    /\ IF files # "one"
       THEN cause' = "empty" /\ pc' = "fail_rmtree"
       ELSE cause' = cause /\ pc' = "set_file_path"
    /\ UNCHANGED <<cfgvars, exc, ret, validated, spawned, procvars, rdvars,
                   task>>

\* shutil.rmtree(temp_dir, ignore_errors=True) of the three failure branches
W_FailRmtree ==
    /\ op = "tracked" /\ pc = "fail_rmtree"
    /\ tdir' = "removed"
    /\ pc' = "fail_status"
    /\ UNCHANGED <<cfgvars, exc, ret, validated, spawned, cause, proc,
                   return_code, pipe, transcript, max_lines, files, rdvars, task>>

\* task.status = "failed"
W_FailStatus ==
    /\ op = "tracked" /\ pc = "fail_status"
    /\ task' = [task EXCEPT !.status = "failed"]
    /\ pc' = "fail_error"
    /\ UNCHANGED <<cfgvars, exc, ret, validated, spawned, cause, procvars,
                   rdvars>>

\* task.error = "..."; return
W_FailError ==
    /\ op = "tracked" /\ pc = "fail_error"
    /\ task' = [task EXCEPT !.error =
                   CASE cause = "timeout" -> "Download timed out (1-hour limit)"
                     [] cause = "exit"    -> "Download failed"
                     [] OTHER             -> "Download produced no output"]
    /\ pc' = "returned"
    /\ UNCHANGED <<cfgvars, exc, ret, validated, spawned, cause, procvars,
                   rdvars>>

\* faulty variant: the status is written first, with the file path
W_SetFilePath_status_first ==
    /\ op = "tracked" /\ pc = "set_file_path"
    /\ task' = [task EXCEPT !.file_path = OutFileName,
                            !.status = "completed"]
    /\ pc' = "set_temp_dir"
    /\ UNCHANGED <<cfgvars, exc, ret, validated, spawned, cause, procvars,
                   rdvars>>

\* task.file_path = actual_path
W_SetFilePath ==
    /\ op = "tracked" /\ pc = "set_file_path"
    /\ task' = [task EXCEPT !.file_path = OutFileName]
    /\ pc' = "set_temp_dir"
    /\ UNCHANGED <<cfgvars, exc, ret, validated, spawned, cause, procvars,
                   rdvars>>

\* task.temp_dir = temp_dir
W_SetTempDir ==
    /\ op = "tracked" /\ pc = "set_temp_dir"
    /\ task' = [task EXCEPT !.temp_dir = TempDirName]
    /\ pc' = "set_file_size"
    /\ UNCHANGED <<cfgvars, exc, ret, validated, spawned, cause, procvars,
                   rdvars>>

\* task.file_size = os.path.getsize(actual_path)
W_SetFileSize ==
    /\ op = "tracked" /\ pc = "set_file_size"
    /\ task' = [task EXCEPT !.file_size = OutFileSize]
    /\ pc' = "set_progress"
    /\ UNCHANGED <<cfgvars, exc, ret, validated, spawned, cause, procvars,
                   rdvars>>

\* task.progress = 100.0
W_SetProgress ==
    /\ op = "tracked" /\ pc = "set_progress"
    /\ task' = [task EXCEPT !.progress = 10000]
    /\ pc' = "set_status"
    /\ UNCHANGED <<cfgvars, exc, ret, validated, spawned, cause, procvars,
                   rdvars>>

\* task.status = "completed"
W_SetStatus ==
    /\ op = "tracked" /\ pc = "set_status"
    /\ task' = [task EXCEPT !.status = "completed"]
    /\ pc' = "set_speed_eta"
    /\ UNCHANGED <<cfgvars, exc, ret, validated, spawned, cause, procvars,
                   rdvars>>

\* task.speed = ""; task.eta = ""; (return)
W_SetSpeedEta ==
    /\ op = "tracked" /\ pc = "set_speed_eta"
    /\ task' = [task EXCEPT !.speed = "", !.eta = ""]
    /\ pc' = "returned"
    /\ UNCHANGED <<cfgvars, exc, ret, validated, spawned, cause, procvars,
                   rdvars>>

-----------------------------------------------------------------------------
(* The yt-dlp subprocess of a tracked download                             *)

\* the child writes one more progress line to its stdout pipe
P_Emit ==
    /\ op = "tracked" /\ proc = "running"
    /\ Len(transcript) < max_lines
    /\ \E l \in Lines : /\ pipe' = Append(pipe, l)
                        /\ transcript' = Append(transcript, l)
    /\ UNCHANGED <<cfgvars, supvars, proc, return_code, max_lines, tdir, files,
                   rdvars, task>>

\* the child exits with some status, having left no file, only a hidden
\* file, or one output file in the temp directory
P_Exit ==
    /\ op = "tracked" /\ proc = "running"
    /\ \E rc \in {0, 1} : return_code' = rc
    /\ \E f \in {"none", "hidden", "one"} : files' = f
    /\ proc' = "exited"
    /\ UNCHANGED <<cfgvars, supvars, pipe, transcript, max_lines, tdir, rdvars, task>>

-----------------------------------------------------------------------------
(* _read_stdout: the reader thread.  process.stdout.readline() takes the   *)
(* next line; each later action is one group of task-field assignments.    *)

\* line = process.stdout.readline(); if not line: break  (end of file: the
\* pipe is drained and its write end is closed)
R_Eof ==
    /\ rpc = "read" /\ pipe = <<>> /\ proc \in {"exited", "killed"}
    /\ rpc' = "done"
    /\ UNCHANGED <<cfgvars, supvars, procvars, line, stream_index, task>>

\* a blank line (continue) or a line that matches none of the patterns
R_Other ==
    /\ rpc = "read" /\ pipe # <<>> /\ Head(pipe).kind = "other"
    /\ pipe' = Tail(pipe)
    /\ UNCHANGED <<cfgvars, supvars, proc, return_code, transcript, max_lines, tdir, files,
                   rdvars, task>>

\* faulty variant: the phase is chosen from the index before it is bumped
R_Destination_stale_index ==
    /\ rpc = "read" /\ pipe # <<>> /\ Head(pipe).kind = "dest"
    /\ pipe' = Tail(pipe)
    /\ stream_index' = stream_index + 1
    /\ task' = [task EXCEPT
                  !.phase = IF is_two_stream(format_id)
                            THEN (IF stream_index = 0 THEN "video"
                                  ELSE "audio")
                            ELSE @,
                  !.speed = "", !.eta = ""]
    /\ UNCHANGED <<cfgvars, supvars, proc, return_code, transcript, max_lines, tdir, files,
                   rpc, line>>

\* if _DESTINATION_RE.search(line): stream_index += 1; ...; continue
R_Destination ==
    /\ rpc = "read" /\ pipe # <<>> /\ Head(pipe).kind = "dest"
    /\ pipe' = Tail(pipe)
    /\ stream_index' = stream_index + 1
    /\ task' = [task EXCEPT
                  !.phase = IF is_two_stream(format_id)
                            THEN (IF stream_index' = 0 THEN "video"
                                  ELSE "audio")
                            ELSE @,
                  !.speed = "", !.eta = ""]
    /\ UNCHANGED <<cfgvars, supvars, proc, return_code, transcript, max_lines, tdir, files,
                   rpc, line>>

\* if _MERGER_RE.search(line): task.status = "merging"
R_Merger ==
    /\ rpc = "read" /\ pipe # <<>> /\ Head(pipe).kind = "merger"
    /\ pipe' = Tail(pipe)
    /\ task' = [task EXCEPT !.status = "merging"]
    /\ rpc' = "merger_phase"
    /\ UNCHANGED <<cfgvars, supvars, proc, return_code, transcript, max_lines, tdir, files,
                   line, stream_index>>

\* task.phase = "merge"
R_MergerPhase ==
    /\ rpc = "merger_phase"
    /\ task' = [task EXCEPT !.phase = "merge"]
    /\ rpc' = "merger_progress"
    /\ UNCHANGED <<cfgvars, supvars, procvars, line, stream_index>>

\* task.progress = 92.0; task.speed = ""; task.eta = ""; continue
R_MergerProgress ==
    /\ rpc = "merger_progress"
    /\ task' = [task EXCEPT !.progress = 9200, !.speed = "", !.eta = ""]
    /\ rpc' = "read"
    /\ UNCHANGED <<cfgvars, supvars, procvars, line, stream_index>>

\* raw = float(pct_m.group(1)) raises ValueError; except Exception: pass
\* ends the thread
R_BadPct ==
    /\ rpc = "read" /\ pipe # <<>> /\ Head(pipe).kind = "badpct"
    /\ pipe' = Tail(pipe)
    /\ rpc' = "done"
    /\ UNCHANGED <<cfgvars, supvars, proc, return_code, transcript, max_lines, tdir, files,
                   line, stream_index, task>>

\* faulty variant: the two ranges of a two-stream request are swapped
rescale_swapped(raw, two, idx) ==
    IF two THEN (IF idx <= 0 THEN 6500 + raw * 25 ELSE raw * 65)
    ELSE raw * 90

\* the rescaling of a raw percentage (hundredths of a percent)
rescale(raw, two, idx) ==
    IF two THEN (IF idx <= 0 THEN raw * 65 ELSE 6500 + raw * 25)
    ELSE raw * 90

\* pct_m = _PROGRESS_PCT_RE.search(line); task.progress = raw * ...
R_Pct ==
    /\ rpc = "read" /\ pipe # <<>> /\ Head(pipe).kind = "pct"
    /\ pipe' = Tail(pipe)
    /\ line' = Head(pipe)
    /\ task' = [task EXCEPT !.progress =
                   rescale(Head(pipe).raw, is_two_stream(format_id),
                           stream_index)]
    /\ rpc' = "pct_cap"
    /\ UNCHANGED <<cfgvars, supvars, proc, return_code, transcript, max_lines, tdir, files,
                   stream_index>>

\* task.progress = min(task.progress, 91.0)
R_PctCap ==
    /\ rpc = "pct_cap"
    /\ task' = [task EXCEPT !.progress = Min(@, 9100)]
    /\ rpc' = "pct_rest"
    /\ UNCHANGED <<cfgvars, supvars, procvars, line, stream_index>>

\* total size after a line announcing stream_bytes
total_after(total, stream_bytes, two, idx) ==
    IF two
    THEN IF idx <= 0 THEN stream_bytes
         ELSE IF stream_bytes > 0 /\ total < stream_bytes * 5
              THEN total + stream_bytes
              ELSE total
    ELSE stream_bytes

\* size_m / spd_m / eta_m: total_bytes, downloaded_bytes, speed, eta
R_PctRest ==
    /\ rpc = "pct_rest"
    /\ LET tot == IF line.size > 0
                  THEN total_after(task.total_bytes, line.size,
                                   is_two_stream(format_id), stream_index)
                  ELSE task.total_bytes
       IN task' = [task EXCEPT
                     !.total_bytes = tot,
                     !.downloaded_bytes =
                         IF line.size > 0
                         THEN (tot * task.progress) \div 10000 ELSE @,
                     !.speed = IF line.rate THEN "1MiB/s" ELSE @,
                     !.eta = IF line.rate THEN "00:05" ELSE @]
    /\ line' = NoLine
    /\ rpc' = "read"
    /\ UNCHANGED <<cfgvars, supvars, procvars, stream_index>>

-----------------------------------------------------------------------------
(* YtDlpService.download_merged_to_file and its caller download_video_post  *)

\* faulty variant: the url is not validated before the temp directory is made
M_CheckFormat_no_url_check ==
    /\ op = "merged" /\ pc = "check"
    /\ IF FORMAT_ID_PATTERN_match(format_id)
       THEN /\ validated' = validated \cup {"format"}
            /\ pc' = "mkdtemp"
            /\ UNCHANGED exc
       ELSE /\ exc' = [type |-> "InvalidUrlError", msg |-> "Invalid format_id"]
            /\ pc' = "raised"
            /\ UNCHANGED validated
    /\ UNCHANGED <<cfgvars, ret, spawned, cause, procvars, rdvars, task>>

\* if not FORMAT_ID_PATTERN.match(format_id): raise InvalidUrlError(...)
M_CheckFormat ==
    /\ op = "merged" /\ pc = "check"
    /\ IF FORMAT_ID_PATTERN_match(format_id)
       THEN /\ validated' = validated \cup {"format"}
            /\ pc' = "normalize"
            /\ UNCHANGED exc
       ELSE /\ exc' = [type |-> "InvalidUrlError", msg |-> "Invalid format_id"]
            /\ pc' = "raised"
            /\ UNCHANGED validated
    /\ UNCHANGED <<cfgvars, ret, spawned, cause, procvars, rdvars, task>>

\* normalized_url = cls.normalize_url(url)
M_Normalize ==
    /\ op = "merged" /\ pc = "normalize"
    /\ LET r == normalize_url(url, allowed, block) IN
       IF r.ok
       THEN /\ validated' = validated \cup {"url"}
            /\ pc' = "mkdtemp"
            /\ UNCHANGED exc
       ELSE /\ exc' = [type |-> r.error, msg |-> r.msg]
            /\ pc' = "raised"
            /\ UNCHANGED validated
    /\ UNCHANGED <<cfgvars, ret, spawned, cause, procvars, rdvars, task>>

\* temp_dir = tempfile.mkdtemp(prefix="ytdl_")
M_Mkdtemp ==
    /\ op = "merged" /\ pc = "mkdtemp"
    /\ tdir' = "exists"
    /\ pc' = "run"
    /\ UNCHANGED <<cfgvars, exc, ret, validated, spawned, cause, proc,
                   return_code, pipe, transcript, max_lines, files, rdvars, task>>

\* result = subprocess.run(cmd, capture_output=True, timeout=3600): the
\* child runs to its end
M_Run ==
    /\ op = "merged" /\ pc = "run"
    /\ spawned' = spawned + 1
    /\ proc' = "exited"
    /\ \E rc \in {0, 1} : return_code' = rc
    /\ \E f \in {"none", "hidden", "one"} : files' = f
    /\ pc' = "check_rc"
    /\ UNCHANGED <<cfgvars, exc, ret, validated, cause, pipe, transcript, max_lines, tdir,
                   rdvars, task>>

\* subprocess.run kills the child after 3600 s and raises TimeoutExpired
M_RunTimeout ==
    /\ op = "merged" /\ pc = "run"
    /\ spawned' = spawned + 1
    /\ proc' = "killed"
    /\ cause' = "timeout"
    /\ pc' = "fail"
    /\ UNCHANGED <<cfgvars, exc, ret, validated, return_code, pipe, transcript,
                   max_lines, tdir, files, rdvars, task>>

\* subprocess.run raises OSError: only TimeoutExpired is handled, so the
\* exception leaves the operation
M_RunSpawnFails ==
    /\ op = "merged" /\ pc = "run"
    /\ exc' = [type |-> "OSError", msg |-> "yt-dlp"]
    /\ pc' = "raised"
    /\ UNCHANGED <<cfgvars, ret, validated, spawned, cause, procvars, rdvars,
                   task>>

\* if result.returncode != 0: ...
M_CheckRc ==
    /\ op = "merged" /\ pc = "check_rc"
    /\ IF return_code # 0
       THEN cause' = "exit" /\ pc' = "fail"
       ELSE cause' = cause /\ pc' = "listdir"
    /\ UNCHANGED <<cfgvars, exc, ret, validated, spawned, procvars, rdvars,
                   task>>

\* files = [f for f in os.listdir(temp_dir) if not f.startswith(".")]
M_Listdir ==
    /\ op = "merged" /\ pc = "listdir"
    /\ IF files # "one"
       THEN cause' = "empty" /\ pc' = "fail"
       ELSE cause' = cause /\ pc' = "return"
    /\ UNCHANGED <<cfgvars, exc, ret, validated, spawned, procvars, rdvars,
                   task>>

\* faulty variant: the failure branch raises without removing the directory
M_Fail_no_rmtree ==
    /\ op = "merged" /\ pc = "fail"
    /\ exc' = [type |-> "YtdlpFailedError", msg |-> "Download failed"]
    /\ pc' = "raised"
    /\ UNCHANGED <<cfgvars, ret, validated, spawned, cause, procvars, rdvars,
                   task>>

\* shutil.rmtree(temp_dir, ignore_errors=True); raise YtdlpFailedError(...)
M_Fail ==
    /\ op = "merged" /\ pc = "fail"
    /\ tdir' = "removed"
    /\ exc' = [type |-> "YtdlpFailedError",
               msg |-> CASE cause = "timeout" ->
                              "Download timed out (1-hour limit)"
                         [] cause = "exit" -> "Download failed"
                         [] OTHER -> "Download produced no output file"]
    /\ pc' = "raised"
    /\ UNCHANGED <<cfgvars, ret, validated, spawned, cause, proc, return_code,
                   pipe, transcript, max_lines, files, rdvars, task>>

\* return actual_path, temp_dir
M_Return ==
    /\ op = "merged" /\ pc = "return"
    /\ ret' = [kind |-> "path", value |-> <<OutFileName>>, dir |-> TempDirName]
    /\ pc' = "returned"
    /\ UNCHANGED <<cfgvars, exc, validated, spawned, cause, procvars, rdvars,
                   task>>

\* download_video_post: StreamingResponse(_stream_file(file_path, temp_dir))
\* the async generator is created, its body has not started
C_Respond ==
    /\ op = "merged" /\ pc = "returned"
    /\ pc' = "response"
    /\ UNCHANGED <<cfgvars, exc, ret, validated, spawned, cause, procvars,
                   rdvars, task>>

\* the response is dropped before its body is iterated: the generator body,
\* and with it the finally clause, never runs
C_NeverIterated ==
    /\ op = "merged" /\ pc = "response"
    /\ cause' = "never_iterated"
    /\ pc' = "ended"
    /\ UNCHANGED <<cfgvars, exc, ret, validated, spawned, procvars, rdvars,
                   task>>

\* _stream_file starts: with open(file_path, "rb") as f: ...
S_Start ==
    /\ op = "merged" /\ pc = "response"
    /\ pc' = "streaming"
    /\ UNCHANGED <<cfgvars, exc, ret, validated, spawned, cause, procvars,
                   rdvars, task>>

\* _stream_file ends (end of file, a read error, or cancellation at the
\* yield when the client disconnects); finally: shutil.rmtree(temp_dir)
S_Finally ==
    /\ op = "merged" /\ pc = "streaming"
    /\ \E c \in {"eof", "read_error", "disconnect"} : cause' = c
    /\ tdir' = "removed"
    /\ pc' = "ended"
    /\ UNCHANGED <<cfgvars, exc, ret, validated, spawned, proc, return_code,
                   pipe, transcript, max_lines, files, rdvars, task>>

-----------------------------------------------------------------------------
(* YtDlpService.download_format                                            *)

\* if not FORMAT_ID_PATTERN.match(format_id): raise InvalidUrlError(...)
F_CheckFormat ==
    /\ op = "format" /\ pc = "check"
    /\ IF FORMAT_ID_PATTERN_match(format_id)
       THEN /\ validated' = validated \cup {"format"}
            /\ pc' = "build"
            /\ UNCHANGED exc
       ELSE /\ exc' = [type |-> "InvalidUrlError", msg |-> "Invalid format_id"]
            /\ pc' = "raised"
            /\ UNCHANGED validated
    /\ UNCHANGED <<cfgvars, ret, spawned, cause, procvars, rdvars, task>>

\* cmd = cls.build_download_command(...), whose first statement is
\* normalized_url = cls.normalize_url(url)
F_BuildCommand ==
    /\ op = "format" /\ pc = "build"
    /\ LET r == normalize_url(url, allowed, block) IN
       IF r.ok
       THEN /\ validated' = validated \cup {"url"}
            /\ pc' = "popen"
            /\ UNCHANGED exc
       ELSE /\ exc' = [type |-> r.error, msg |-> r.msg]
            /\ pc' = "raised"
            /\ UNCHANGED validated
    /\ UNCHANGED <<cfgvars, ret, spawned, cause, procvars, rdvars, task>>

\* process = subprocess.Popen(...); return process
F_Popen ==
    /\ op = "format" /\ pc = "popen"
    /\ proc' = "running"
    /\ spawned' = spawned + 1
    /\ ret' = [kind |-> "process", value |-> <<>>, dir |-> "None"]
    /\ pc' = "returned"
    /\ UNCHANGED <<cfgvars, exc, validated, cause, return_code, pipe, transcript,
                   max_lines, tdir, files, rdvars, task>>

\* except Exception as e: raise YtdlpFailedError(f"Failed to start ...")
F_PopenFails ==
    /\ op = "format" /\ pc = "popen"
    /\ exc' = [type |-> "YtdlpFailedError", msg |-> "Failed to start download"]
    /\ pc' = "raised"
    /\ UNCHANGED <<cfgvars, ret, validated, spawned, cause, procvars, rdvars,
                   task>>

-----------------------------------------------------------------------------
(* The download specification                                              *)

Tracked ==
    \/ W_CheckFormat \/ W_Normalize \/ W_Mkdtemp \/ W_MarkDownloading
    \/ W_Popen \/ W_PopenFails \/ W_StartReader \/ W_Wait \/ W_WaitTimeout
    \/ W_Join \/ W_JoinTimeout \/ W_CheckRc \/ W_Listdir \/ W_FailRmtree
    \/ W_FailStatus \/ W_FailError \/ W_SetFilePath \/ W_SetTempDir
    \/ W_SetFileSize \/ W_SetProgress \/ W_SetStatus \/ W_SetSpeedEta

Subprocess == P_Emit \/ P_Exit

Reader ==
    \/ R_Eof \/ R_Other \/ R_Destination \/ R_Merger \/ R_MergerPhase
    \/ R_MergerProgress \/ R_BadPct \/ R_Pct \/ R_PctCap \/ R_PctRest

Merged ==
    \/ M_CheckFormat \/ M_Normalize \/ M_Mkdtemp \/ M_Run \/ M_RunTimeout
    \/ M_RunSpawnFails \/ M_CheckRc \/ M_Listdir \/ M_Fail \/ M_Return
    \/ C_Respond \/ C_NeverIterated \/ S_Start \/ S_Finally

Single == F_CheckFormat \/ F_BuildCommand \/ F_Popen \/ F_PopenFails

Next == Tracked \/ Subprocess \/ Reader \/ Merged \/ Single

Spec == Init /\ [][Next]_vars

NextTracked == Tracked \/ Subprocess \/ Reader

SpecTracked == InitTracked /\ [][NextTracked]_vars

-----------------------------------------------------------------------------
(* normalize_url on its own (SpecUrl)                                      *)

Leads   == { <<>>, <<" ">>, <<"\t", " ">> }
Trails  == { <<>>, <<"\n">>, <<" ", "\n">> }
Schemes == {"http", "HTTPS", "https", "ftp", "file", ""}
Hosts   == HostTokens \cup {""}

\* the url text: whitespace, scheme "://" host, a path, whitespace ("" for
\* a part that is absent)
MkUrl(lead, scheme, host, trail) ==
    lead \o (IF scheme = "" THEN <<>> ELSE <<scheme, "://">>)
         \o (IF host = "" THEN <<>> ELSE <<host>>)
         \o <<"/v">> \o trail

Urls == { MkUrl(l, s, h, t) : l \in Leads, s \in Schemes, h \in Hosts,
                              t \in Trails }

InitUrl ==
    /\ allowed \in { {"http", "https"}, {"https"} }
    /\ block \in BOOLEAN
    /\ op = "normalize"
    /\ url \in Urls
    /\ format_id = <<>>
    /\ pc = "call"
    /\ max_lines = 0
    /\ Idle
    /\ ServiceIdle

\* one call of YtDlpService.normalize_url(url)
U_Normalize ==
    /\ op = "normalize" /\ pc = "call"
    /\ LET r == normalize_url(url, allowed, block) IN
       IF r.ok
       THEN /\ ret' = [kind |-> "url", value |-> r.value, dir |-> "None"]
            /\ UNCHANGED exc
       ELSE /\ exc' = [type |-> r.error, msg |-> r.msg]
            /\ UNCHANGED ret
    /\ pc' = "done"
    /\ UNCHANGED <<cfgvars, validated, spawned, cause, procvars, rdvars, task>>

SpecUrl == InitUrl /\ [][U_Normalize]_vars

-----------------------------------------------------------------------------
(* Format catalog builder: _normalize_format, _normalize_formats,          *)
(* _create_merged_formats, _sort_formats, _extract_video_info              *)
(*                                                                         *)
(* A quality label is a sequence of segments [d, t]: a run of digits d     *)
(* (-1 when the segment has none) followed by digit-free text t.  A raw    *)
(* record carries "missing" for a key the engine did not set, 0 for a      *)
(* number it did not set and <<>> for a text it did not set.  A format     *)
(* id is a sequence of selector tokens; filesize_bytes is <<>> for None    *)
(* and <<n>> for the integer n.                                            *)

\* longest list of raw records explored
MaxRaw == 3

Seg(d, t) == [d |-> d, t |-> t]

CODEC_NONE == "none"
FORMAT_ID_UNKNOWN == <<"unknown">>
VIDEO_CONTAINER_EXTS == {"mp4", "m4v", "mov"}

\* (height, label) of MERGE_TIERS, in the order of the tuple
MERGE_TIERS ==
    << [height |-> 2160, label |-> <<Seg(4, "K Ultra HD ("), Seg(2160, "p)")>>],
       [height |-> 1440, label |-> <<Seg(-1, "QHD ("), Seg(1440, "p)")>>],
       [height |-> 1080, label |-> <<Seg(-1, "Full HD ("), Seg(1080, "p)")>>],
       [height |-> 720,  label |-> <<Seg(-1, "HD ("), Seg(720, "p)")>>],
       [height |-> 480,  label |-> <<Seg(-1, "SD ("), Seg(480, "p)")>>] >>

\* texts of the model whose first character is "p"
StartsWithP == {"p", "p)", "p merged", "p HDR"}

\* texts t of the model with "merged" in t.lower()
ContainsMerged == {" (Merged)", "Best Available (Merged)", "p merged",
                   "Premerged"}

\* texts t of the model with "best available" in t.lower()
ContainsBestAvailable == {"Best Available (Merged)", "Best available "}

\* re.search(r"(\d+)p", label): the first run of digits that a "p" follows,
\* as an integer; -1 when there is no match
RECURSIVE height_match(_)
height_match(label) ==
    IF label = <<>> THEN -1
    ELSE IF Head(label).d >= 0 /\ Head(label).t \in StartsWithP
         THEN Head(label).d
         ELSE height_match(Tail(label))

\* dict.get(key, CODEC_NONE) of a codec field
get_codec(v) == IF v = "missing" THEN CODEC_NONE ELSE v

\* YtDlpService._extract_quality_label(raw_format)
_extract_quality_label(raw) ==
    IF raw.height # 0 THEN <<Seg(raw.height, "p")>>
    ELSE IF raw.abr # 0 THEN <<Seg(raw.abr, "kbps")>>
    ELSE IF raw.format_note # <<>> THEN raw.format_note
    ELSE IF raw.quality # <<>> THEN raw.quality
    ELSE <<Seg(-1, "unknown")>>

\* YtDlpService._determine_mime_type(raw_format), as <<prefix, ext>>
_determine_mime_type(raw) ==
    LET ext == IF raw.ext = "missing" THEN "unknown" ELSE raw.ext
        vcodec == get_codec(raw.vcodec)
        acodec == get_codec(raw.acodec)
    IN  IF vcodec # CODEC_NONE THEN <<"video/", ext>>
        ELSE IF acodec # CODEC_NONE THEN <<"audio/", ext>>
        ELSE IF ext \in VIDEO_CONTAINER_EXTS THEN <<"video/", ext>>
        ELSE <<"application/", ext>>

\* Format(...) rejects the record: filesize_bytes is declared ge=0
format_raises(raw) ==
    LET filesize == IF raw.filesize # 0 THEN raw.filesize
                    ELSE raw.filesize_approx
    IN  filesize < 0

\* faulty variant: is_audio_only does not look at the video codec
_normalize_format_audio_flag(raw) ==
    LET fid == IF raw.format_id # <<>> THEN raw.format_id
               ELSE IF raw.id # <<>> THEN raw.id
               ELSE FORMAT_ID_UNKNOWN
        filesize == IF raw.filesize # 0 THEN raw.filesize
                    ELSE raw.filesize_approx
        vcodec == get_codec(raw.vcodec)
        acodec == get_codec(raw.acodec)
    IN  [id |-> fid,
         quality_label |-> _extract_quality_label(raw),
         mime_type |-> _determine_mime_type(raw),
         filesize_bytes |-> IF filesize = 0 THEN <<>> ELSE <<filesize>>,
         is_audio_only |-> (acodec # CODEC_NONE),
         is_video_only |-> (vcodec # CODEC_NONE /\ acodec = CODEC_NONE)]

\* YtDlpService._normalize_format(raw_format), for a record it accepts
_normalize_format(raw) ==
    LET fid == IF raw.format_id # <<>> THEN raw.format_id
               ELSE IF raw.id # <<>> THEN raw.id
               ELSE FORMAT_ID_UNKNOWN
        filesize == IF raw.filesize # 0 THEN raw.filesize
                    ELSE raw.filesize_approx
        vcodec == get_codec(raw.vcodec)
        acodec == get_codec(raw.acodec)
    IN  [id |-> fid,
         quality_label |-> _extract_quality_label(raw),
         mime_type |-> _determine_mime_type(raw),
         filesize_bytes |-> IF filesize = 0 THEN <<>> ELSE <<filesize>>,
         is_audio_only |-> (acodec # CODEC_NONE /\ vcodec = CODEC_NONE),
         is_video_only |-> (vcodec # CODEC_NONE /\ acodec = CODEC_NONE)]

\* faulty variant: the loop appends without looking at seen_ids
RECURSIVE normalize_loop_no_dedup(_, _, _)
normalize_loop_no_dedup(raws, acc, seen_ids) ==
    IF raws = <<>> THEN acc
    ELSE LET raw_fmt == Head(raws) IN
         IF format_raises(raw_fmt)
         THEN normalize_loop_no_dedup(Tail(raws), acc, seen_ids)
         ELSE LET fmt == _normalize_format(raw_fmt) IN
              IF fmt.id # FORMAT_ID_UNKNOWN
              THEN normalize_loop_no_dedup(Tail(raws), Append(acc, fmt),
                                           seen_ids \cup {fmt.id})
              ELSE normalize_loop_no_dedup(Tail(raws), acc, seen_ids)

\* the for loop of _normalize_formats over the records not yet visited
RECURSIVE normalize_loop(_, _, _)
normalize_loop(raws, acc, seen_ids) ==
    IF raws = <<>> THEN acc
    ELSE LET raw_fmt == Head(raws) IN
         IF format_raises(raw_fmt)
         THEN normalize_loop(Tail(raws), acc, seen_ids)
         ELSE LET fmt == _normalize_format(raw_fmt) IN
              IF fmt.id \notin seen_ids /\ fmt.id # FORMAT_ID_UNKNOWN
              THEN normalize_loop(Tail(raws), Append(acc, fmt),
                                  seen_ids \cup {fmt.id})
              ELSE normalize_loop(Tail(raws), acc, seen_ids)

\* faulty variant: no try/except around the body of the loop
_normalize_formats_no_except(raws) ==
    IF raws = <<>>
    THEN Raise("FormatNotAvailableError", "No formats available for this video")
    ELSE IF \E k \in 1..Len(raws) : format_raises(raws[k])
    THEN Raise("ValidationError", "filesize_bytes")
    ELSE LET fmts == normalize_loop(raws, <<>>, {}) IN
         IF fmts = <<>>
         THEN Raise("FormatNotAvailableError", "No valid formats found")
         ELSE Ok(fmts)

\* YtDlpService._normalize_formats(raw_formats)
_normalize_formats(raws) ==
    IF raws = <<>>
    THEN Raise("FormatNotAvailableError", "No formats available for this video")
    ELSE LET fmts == normalize_loop(raws, <<>>, {}) IN
         IF fmts = <<>>
         THEN Raise("FormatNotAvailableError", "No valid formats found")
         ELSE Ok(fmts)

\* f"{height}" for the heights of MERGE_TIERS
str_height(h) ==
    CASE h = 2160 -> "2160"
      [] h = 1440 -> "1440"
      [] h = 1080 -> "1080"
      [] h = 720  -> "720"
      [] h = 480  -> "480"

\* a merged entry with the given selector and label
MergedFormat(selector, label) ==
    [id |-> selector, quality_label |-> label,
     mime_type |-> <<"video/", "mp4">>, filesize_bytes |-> <<>>,
     is_audio_only |-> FALSE, is_video_only |-> FALSE]

\* the selector of the best-available entry
BestSelector ==
    << "bestvideo", "[vcodec^=avc1]", "+", "bestaudio", "[acodec^=mp4a]", "/",
       "bestvideo", "[vcodec^=avc1]", "+", "bestaudio", "[acodec^=mp4]", "/",
       "bestvideo", "[vcodec^=avc]", "+", "bestaudio", "[acodec^=mp4a]", "/",
       "best", "[vcodec^=avc1]", "/",
       "best", "[vcodec^=avc]" >>

\* faulty variant: the height cap is left out of the tier selectors
TierSelector_uncapped(h) ==
       <<"bestvideo", "[vcodec^=avc1]", "+", "bestaudio", "[acodec^=mp4a]", "/">>
    \o <<"bestvideo", "[vcodec^=avc1]", "+", "bestaudio", "[acodec^=mp4]", "/">>
    \o <<"bestvideo", "[vcodec^=avc]", "+", "bestaudio", "[acodec^=mp4a]", "/">>
    \o <<"best", "[vcodec^=avc1]", "/">>
    \o <<"best", "[vcodec^=avc]">>

\* the selector of the entry capped at the given height
TierSelector(h) ==
    LET cap == <<"[height<=", str_height(h), "]">> IN
       <<"bestvideo">> \o cap \o <<"[vcodec^=avc1]", "+", "bestaudio",
                                   "[acodec^=mp4a]", "/">>
    \o <<"bestvideo">> \o cap \o <<"[vcodec^=avc1]", "+", "bestaudio",
                                   "[acodec^=mp4]", "/">>
    \o <<"bestvideo">> \o cap \o <<"[vcodec^=avc]", "+", "bestaudio",
                                   "[acodec^=mp4a]", "/">>
    \o <<"best">> \o cap \o <<"[vcodec^=avc1]", "/">>
    \o <<"best">> \o cap \o <<"[vcodec^=avc]">>

\* the set comprehension of _create_merged_formats
available_heights(fmts) ==
    { height_match(fmts[i].quality_label) :
        i \in { k \in 1..Len(fmts) :
                  /\ height_match(fmts[k].quality_label) # -1
                  /\ "video/" \in {fmts[k].mime_type[1], fmts[k].mime_type[2]} } }

\* the loop over MERGE_TIERS from the given tier on
RECURSIVE tier_loop(_, _)
tier_loop(i, heights) ==
    IF i > Len(MERGE_TIERS) THEN <<>>
    ELSE (IF MERGE_TIERS[i].height \in heights
          THEN << MergedFormat(TierSelector(MERGE_TIERS[i].height),
                               MERGE_TIERS[i].label \o <<Seg(-1, " (Merged)")>>) >>
          ELSE <<>>)
         \o tier_loop(i + 1, heights)

\* faulty variant: the best-available selector ends in a bare "best"
_create_merged_formats_bare_best(fmts) ==
    << MergedFormat(BestSelector \o <<"/", "best">>,
                    <<Seg(-1, "Best Available (Merged)")>>) >>
    \o tier_loop(1, available_heights(fmts))

\* faulty variant: every tier is offered, whatever the input holds
_create_merged_formats_all_tiers(fmts) ==
    << MergedFormat(BestSelector, <<Seg(-1, "Best Available (Merged)")>>) >>
    \o tier_loop(1, {2160, 1440, 1080, 720, 480})

\* YtDlpService._create_merged_formats(formats)
_create_merged_formats(fmts) ==
    << MergedFormat(BestSelector, <<Seg(-1, "Best Available (Merged)")>>) >>
    \o tier_loop(1, available_heights(fmts))

\* _sort_key(f) of _sort_formats, the boolean as 0 / 1
_sort_key(f) ==
    LET m == height_match(f.quality_label)
        height == IF m # -1 THEN m ELSE 0
        priority ==
            IF \E i \in 1..Len(f.quality_label) :
                   f.quality_label[i].t \in ContainsBestAvailable THEN 0
            ELSE IF \E i \in 1..Len(f.quality_label) :
                   f.quality_label[i].t \in ContainsMerged THEN 1
            ELSE 2
    IN  <<priority, IF f.is_audio_only THEN 1 ELSE 0, 0 - height>>

\* tuple comparison a < b
key_lt(a, b) ==
    \/ a[1] < b[1]
    \/ a[1] = b[1] /\ a[2] < b[2]
    \/ a[1] = b[1] /\ a[2] = b[2] /\ a[3] < b[3]

\* x put into a sorted list behind every element that is not greater
RECURSIVE insert_sorted(_, _)
insert_sorted(x, sorted) ==
    IF sorted = <<>> THEN <<x>>
    ELSE IF key_lt(_sort_key(x), _sort_key(Head(sorted)))
         THEN <<x>> \o sorted
         ELSE <<Head(sorted)>> \o insert_sorted(x, Tail(sorted))

\* faulty variant: x goes in front of the elements with an equal key
RECURSIVE insert_front(_, _)
insert_front(x, sorted) ==
    IF sorted = <<>> THEN <<x>>
    ELSE IF ~key_lt(_sort_key(Head(sorted)), _sort_key(x))
         THEN <<x>> \o sorted
         ELSE <<Head(sorted)>> \o insert_front(x, Tail(sorted))

RECURSIVE _sort_formats_unstable(_)
_sort_formats_unstable(fmts) ==
    IF fmts = <<>> THEN <<>>
    ELSE insert_front(fmts[Len(fmts)],
                      _sort_formats_unstable(SubSeq(fmts, 1, Len(fmts) - 1)))

\* YtDlpService._sort_formats(formats): list.sort(key=_sort_key), a stable
\* sort; the sorted list is returned instead of replacing the argument
RECURSIVE _sort_formats(_)
_sort_formats(fmts) ==
    IF fmts = <<>> THEN <<>>
    ELSE insert_sorted(fmts[Len(fmts)],
                       _sort_formats(SubSeq(fmts, 1, Len(fmts) - 1)))

-----------------------------------------------------------------------------
(* _extract_video_info on its own (SpecCatalog)                            *)

Raw(fid, id, h, abr, note, ext, vc, ac, fs, fsa) ==
    [format_id |-> fid, id |-> id, height |-> h, abr |-> abr,
     format_note |-> note, quality |-> <<>>, ext |-> ext, vcodec |-> vc,
     acodec |-> ac, filesize |-> fs, filesize_approx |-> fsa]

\* raw records: muxed, video-only and audio-only streams, a repeated id, a
\* record without id, an id under the "id" key, records Format() rejects,
\* labels from free-text notes, container-only and codec-less records
RawRecords ==
    { Raw(<<"22">>, <<>>, 720, 0, <<>>, "mp4", "avc1", "mp4a", 7, 0),
      Raw(<<"137">>, <<>>, 1080, 0, <<>>, "mp4", "avc1", "none", 0, 9),
      Raw(<<"140">>, <<>>, 0, 128, <<>>, "m4a", "none", "mp4a", 5, 0),
      Raw(<<"22">>, <<>>, 480, 0, <<>>, "webm", "vp9", "missing", 0, 0),
      Raw(<<>>, <<>>, 720, 0, <<>>, "mp4", "avc1", "mp4a", 7, 0),
      Raw(<<>>, <<"18">>, 0, 0, <<Seg(1080, "p HDR")>>, "mp4", "None",
          "missing", 0, 0),
      Raw(<<"22">>, <<>>, 1080, 0, <<>>, "mp4", "avc1", "mp4a", -1, 0),
      Raw(<<"99">>, <<>>, 0, 64, <<>>, "m4a", "missing", "mp4a", 0, -1),
      Raw(<<"sb0">>, <<>>, 0, 0, <<Seg(-1, "Best available "), Seg(720, "p")>>,
          "mp4", "avc1", "mp4a", 0, 0),
      Raw(<<"pm">>, <<>>, 0, 0, <<Seg(-1, "Premerged")>>, "mp4", "avc1",
          "mp4a", 0, 0),
      Raw(<<"sb1">>, <<>>, 480, 0, <<>>, "mhtml", "none", "none", 0, 0),
      Raw(<<"251">>, <<>>, 0, 0, <<>>, "webm", "none", "opus", 0, 0),
      Raw(<<"c">>, <<>>, 1440, 0, <<>>, "mp4", "missing", "missing", 0, 0),
      Raw(<<"a720">>, <<>>, 720, 0, <<>>, "m4a", "none", "mp4a", 0, 0) }

\* the lists of at most n elements of S
ListsUpTo(S, n) == UNION { [1..k -> S] : k \in 0..n }

InitCatalog ==
    /\ allowed = {"http", "https"}
    /\ block = TRUE
    /\ op = "extract"
    /\ url = <<>>
    /\ format_id = <<>>
    /\ pc = "normalize"
    /\ max_lines = 0
    /\ Idle
    /\ raw_formats \in ListsUpTo(RawRecords, MaxRaw)
    /\ formats = <<>> /\ merged_formats = <<>>
    /\ CacheIdle

\* formats = cls._normalize_formats(info.get("formats", []))
X_NormalizeFormats ==
    /\ op = "extract" /\ pc = "normalize"
    /\ LET r == _normalize_formats(raw_formats) IN
       IF r.ok
       THEN /\ formats' = r.value
            /\ pc' = "merge"
            /\ UNCHANGED exc
       ELSE /\ exc' = [type |-> r.error, msg |-> r.msg]
            /\ pc' = "raised"
            /\ UNCHANGED formats
    /\ UNCHANGED <<allowed, block, regvars, strvars, op, url, format_id, raw_formats,
                   merged_formats, cachevars, ret, validated, spawned, cause,
                   procvars, rdvars, task>>

\* merged_formats = cls._create_merged_formats(formats)
X_CreateMerged ==
    /\ op = "extract" /\ pc = "merge"
    /\ merged_formats' = _create_merged_formats(formats)
    /\ pc' = "sort"
    /\ UNCHANGED <<allowed, block, regvars, strvars, op, url, format_id, raw_formats, formats,
                   cachevars, exc, ret, validated, spawned, cause, procvars,
                   rdvars, task>>

\* all_formats = merged_formats + formats; cls._sort_formats(all_formats);
\* return VideoInfo(..., formats=all_formats)
X_Sort ==
    /\ op = "extract" /\ pc = "sort"
    /\ ret' = [kind |-> "VideoInfo",
               value |-> _sort_formats(merged_formats \o formats),
               dir |-> "None"]
    /\ pc' = "returned"
    /\ UNCHANGED <<allowed, block, regvars, strvars, op, url, format_id, catvars, cachevars,
                   exc, validated, spawned, cause, procvars, rdvars, task>>

NextCatalog == X_NormalizeFormats \/ X_CreateMerged \/ X_Sort

SpecCatalog == InitCatalog /\ [][NextCatalog]_vars

-----------------------------------------------------------------------------
(* _sort_formats on its own (SpecSort)                                     *)

\* longest list handed to _sort_formats
MaxSort == 3

\* the formats the builder makes of the raw records, and its merged entries
SortFormats ==
    { _normalize_format(r) : r \in { x \in RawRecords : ~format_raises(x) } }
    \cup { MergedFormat(BestSelector, <<Seg(-1, "Best Available (Merged)")>>) }
    \cup { tier_loop(1, {2160, 1440, 1080, 720, 480})[i] : i \in 1..5 }

\* lists of distinct formats, in every order
SortInputs ==
    { l \in ListsUpTo(SortFormats, MaxSort) :
        \A i, j \in 1..Len(l) : l[i] = l[j] => i = j }

InitSort ==
    /\ allowed = {"http", "https"}
    /\ block = TRUE
    /\ op = "sort"
    /\ url = <<>>
    /\ format_id = <<>>
    /\ pc = "call"
    /\ max_lines = 0
    /\ Idle
    /\ raw_formats = <<>>
    /\ formats \in SortInputs
    /\ merged_formats = <<>>
    /\ CacheIdle

\* one call of YtDlpService._sort_formats(formats); the list may be sorted
\* a second time
Sort_Apply ==
    /\ op = "sort" /\ pc \in {"call", "sorted"}
    /\ formats' = _sort_formats(formats)
    /\ pc' = IF pc = "call" THEN "sorted" ELSE "resorted"
    /\ UNCHANGED <<allowed, block, regvars, strvars, op, url, format_id, raw_formats,
                   merged_formats, cachevars, exc, ret, validated, spawned,
                   cause, procvars, rdvars, task>>

SpecSort == InitSort /\ [][Sort_Apply]_vars

-----------------------------------------------------------------------------
(* Result cache and fetch_formats (SpecCache)                              *)
(*                                                                         *)
(* _formats_cache is a cachetools.TTLCache.  Its entries are kept in the   *)
(* order of its OrderedDict of links: least recently used first.  Its      *)
(* second list, ordered by expiry, is not kept apart: the clock never runs *)
(* backwards and the TTL is fixed, so expire() removes exactly the entries *)
(* whose expiry time has come.  An entry also records when it was stored   *)
(* and at which call it was last used, and the cache how many entries      *)
(* popitem() has discarded; the cache never reads these three.             *)

\* latest clock value explored
MaxTime == 2

\* most service calls explored in one run
MaxCalls == 4

Max(a, b) == IF a >= b THEN a ELSE b

\* position of the entry with the given key (0 when there is none)
link_of(links, key) ==
    LET hits == { i \in 1..Len(links) : links[i].key = key } IN
    IF hits = {} THEN 0 ELSE CHOOSE i \in hits : TRUE

\* the list without its i-th element
without(links, i) ==
    SubSeq(links, 1, i - 1) \o SubSeq(links, i + 1, Len(links))

\* faulty variant: the cache is created one entry too large
_get_cache_oversized(c) ==
    IF c.created THEN c
    ELSE [created |-> TRUE, maxsize |-> Max(1, maxsize) + 1,
          ttl |-> Max(1, ttl_seconds), links |-> <<>>, popped |-> 0]

\* cls._get_cache(): the cache, created on first use
_get_cache(c) ==
    IF c.created THEN c
    ELSE [created |-> TRUE, maxsize |-> Max(1, maxsize),
          ttl |-> Max(1, ttl_seconds), links |-> <<>>, popped |-> 0]

\* cls._cache_enabled()
_cache_enabled ==  ttl_seconds > 0 /\ maxsize > 0

\* TTLCache.expire(time): drop the entries with not (time < expires)
expire(links, time) ==
    SelectSeq(links, LAMBDA e : time < e.expires)

\* TTLCache.get(key) at the given clock value: the value of an unexpired
\* entry, which becomes the most recently used one; None otherwise, the
\* cache left as it is
TTLCache_get(c, key, time, stamp) ==
    LET i == link_of(c.links, key) IN
    IF i # 0 /\ time < c.links[i].expires
    THEN [hit |-> TRUE, value |-> c.links[i].value,
          cache |-> [c EXCEPT !.links =
                        Append(without(c.links, i),
                               [c.links[i] EXCEPT !.used = stamp])]]
    ELSE [hit |-> FALSE, value |-> <<>>, cache |-> c]

\* TTLCache.__setitem__(key, value) at the given clock value: expire(), then
\* popitem() from the least recently used end while the cache is full, then
\* the entry is linked in as the most recently used with expiry time + ttl
TTLCache_setitem(c, key, value, time, stamp) ==
    LET live == expire(c.links, time)
        i == link_of(live, key)
        room == IF i = 0 /\ Len(live) + 1 > c.maxsize
                THEN SubSeq(live, Len(live) - c.maxsize + 2, Len(live))
                ELSE live
        kept == IF i # 0 THEN without(live, i) ELSE room
    IN  [c EXCEPT !.links =
                    Append(kept, [key |-> key, value |-> value,
                                  expires |-> time + c.ttl,
                                  set_at |-> time, used |-> stamp]),
                  !.popped = c.popped + (Len(live) - Len(room))]

\* YtDlpService.get_cached_formats(url): raises what normalize_url raises,
\* returns None when caching is off, else looks the normalised url up
get_cached_formats(u) ==
    LET n == normalize_url(u, allowed, block) IN
    IF ~n.ok THEN [ok |-> FALSE, error |-> n.error, msg |-> n.msg,
                   hit |-> FALSE, value |-> <<>>, cache |-> formats_cache]
    ELSE IF ~_cache_enabled
    THEN [ok |-> TRUE, error |-> "none", msg |-> "",
          hit |-> FALSE, value |-> <<>>, cache |-> formats_cache]
    ELSE LET g == TTLCache_get(_get_cache(formats_cache), n.value, now,
                               calls + 1)
         IN  [ok |-> TRUE, error |-> "none", msg |-> "",
              hit |-> g.hit, value |-> g.value, cache |-> g.cache]

\* faulty variant: the entry is stored whether or not caching is on
_cache_set_formats_always(normalized_url, video_info) ==
    TTLCache_setitem(_get_cache(formats_cache), normalized_url, video_info,
                     now, calls)

\* YtDlpService._cache_set_formats(normalized_url, video_info): the cache
\* after the call
_cache_set_formats(normalized_url, video_info) ==
    IF ~_cache_enabled THEN formats_cache
    ELSE TTLCache_setitem(_get_cache(formats_cache), normalized_url,
                          video_info, now, calls)

\* the urls the service is called with: three the gate accepts as they
\* are, one it accepts after stripping, one it rejects
CacheUrls ==
    { <<"https", "://", "example.com", "/v">>,
      <<" ", "https", "://", "example.com", "/v", "\n">>,
      <<"https", "://", "8.8.8.8", "/v">>,
      <<"http", "://", "example.com", "/v">>,
      <<"ftp", "://", "example.com", "/v">> }

\* info["formats"] of the records ydl.extract_info can return
EngineInfos ==
    { << Raw(<<"140">>, <<>>, 0, 128, <<>>, "m4a", "none", "mp4a", 5, 0) >>,
      << Raw(<<"251">>, <<>>, 0, 0, <<>>, "webm", "none", "opus", 0, 0) >>,
      << Raw(<<"22">>, <<>>, 1080, 0, <<>>, "mp4", "avc1", "mp4a", -1, 0) >> }

\* what ydl.extract_info can do other than return a record, and the error
\* fetch_formats raises then
EngineFailures ==
    { [engine |-> "None", error |-> "VideoNotFoundError"],
      [engine |-> "DownloadError", error |-> "YtdlpFailedError"] }

InitCache ==
    /\ allowed = {"http", "https"}
    /\ block = TRUE
    /\ op = "none"
    /\ url = <<>>
    /\ format_id = <<>>
    /\ pc = "idle"
    /\ max_lines = 0
    /\ Idle
    /\ raw_formats = <<>> /\ formats = <<>> /\ merged_formats = <<>>
    /\ ttl_seconds \in {0, 2}
    /\ maxsize \in {0, 2}
    /\ formats_cache = NoCache
    /\ now = 0 /\ calls = 0 /\ engine_calls = 0

\* the clock advances
T_Tick ==
    /\ op \in {"none", "get_cached_formats", "fetch_formats", "post",
              "registry"}
    /\ now < MaxTime
    /\ now' = now + 1
    /\ UNCHANGED <<allowed, block, regvars, strvars, op, url, format_id, catvars, ttl_seconds,
                   maxsize, formats_cache, calls, engine_calls, supvars,
                   procvars, rdvars, task>>

\* one call of YtDlpService.get_cached_formats(u), as download_video_post
\* makes it
G_GetCached ==
    /\ op \in {"none", "get_cached_formats", "fetch_formats"}
    /\ pc = "idle" /\ calls < MaxCalls
    /\ \E u \in CacheUrls :
        LET r == get_cached_formats(u) IN
        /\ op' = "get_cached_formats" /\ url' = u
        /\ exc' = IF r.ok THEN NoExc ELSE [type |-> r.error, msg |-> r.msg]
        /\ ret' = IF r.hit
                  THEN [kind |-> "VideoInfo", value |-> r.value, dir |-> "None"]
                  ELSE NoneRet
        /\ formats_cache' = r.cache
    /\ calls' = calls + 1
    /\ UNCHANGED <<allowed, block, regvars, strvars, format_id, catvars, ttl_seconds, maxsize,
                   now, engine_calls, pc, validated, spawned, cause, procvars,
                   rdvars, task>>

\* fetch_formats(u) up to "if cached is not None: return cached"
FF_Lookup ==
    /\ op \in {"none", "get_cached_formats", "fetch_formats"}
    /\ pc = "idle" /\ calls < MaxCalls
    /\ \E u \in CacheUrls :
        LET n == normalize_url(u, allowed, block)
            r == get_cached_formats(n.value)
        IN
        /\ op' = "fetch_formats" /\ url' = u
        /\ IF ~n.ok
           THEN /\ exc' = [type |-> n.error, msg |-> n.msg]
                /\ ret' = NoneRet
                /\ pc' = "idle"
                /\ UNCHANGED formats_cache
           ELSE /\ exc' = NoExc
                /\ ret' = IF r.hit
                          THEN [kind |-> "VideoInfo", value |-> r.value,
                                dir |-> "None"]
                          ELSE NoneRet
                /\ pc' = IF r.hit THEN "idle" ELSE "extract"
                /\ formats_cache' = r.cache
    /\ calls' = calls + 1
    /\ UNCHANGED <<allowed, block, regvars, strvars, format_id, catvars, ttl_seconds, maxsize,
                   now, engine_calls, validated, spawned, cause, procvars,
                   rdvars, task>>

\* ydl.extract_info returns a record the catalog is built from:
\* _extract_video_info, _cache_set_formats, return video_info
FF_ExtractOk ==
    /\ op = "fetch_formats" /\ pc = "extract"
    /\ \E info \in EngineInfos :
        LET r == _normalize_formats(info)
            merged == _create_merged_formats(r.value)
            video_info == _sort_formats(merged \o r.value)
        IN
        /\ r.ok
        /\ formats_cache' =
              _cache_set_formats(normalize_url(url, allowed, block).value,
                                 video_info)
        /\ ret' = [kind |-> "VideoInfo", value |-> video_info, dir |-> "None"]
    /\ engine_calls' = engine_calls + 1
    /\ pc' = "idle"
    /\ UNCHANGED <<allowed, block, regvars, strvars, op, url, format_id, catvars, ttl_seconds,
                   maxsize, now, calls, exc, validated, spawned, cause,
                   procvars, rdvars, task>>

\* faulty variant: the failed resolution is cached as an empty catalog
FF_ExtractFails_caches ==
    /\ op = "fetch_formats" /\ pc = "extract"
    /\ \E f \in EngineFailures :
            exc' = [type |-> f.error, msg |-> f.engine]
    /\ formats_cache' =
          _cache_set_formats(normalize_url(url, allowed, block).value, <<>>)
    /\ engine_calls' = engine_calls + 1
    /\ pc' = "idle"
    /\ UNCHANGED <<allowed, block, regvars, strvars, op, url, format_id, catvars, ttl_seconds,
                   maxsize, now, calls, ret, validated, spawned, cause,
                   procvars, rdvars, task>>

\* ydl.extract_info returns nothing or raises, or no format of the record
\* is valid: fetch_formats raises a typed error
FF_ExtractFails ==
    /\ op = "fetch_formats" /\ pc = "extract"
    /\ \/ \E f \in EngineFailures :
            exc' = [type |-> f.error, msg |-> f.engine]
       \/ \E info \in EngineInfos :
            LET r == _normalize_formats(info) IN
            /\ ~r.ok
            /\ exc' = [type |-> r.error, msg |-> r.msg]
    /\ engine_calls' = engine_calls + 1
    /\ pc' = "idle"
    /\ UNCHANGED <<allowed, block, regvars, strvars, op, url, format_id, catvars, ttl_seconds,
                   maxsize, formats_cache, now, calls, ret, validated,
                   spawned, cause, procvars, rdvars, task>>

NextCache == T_Tick \/ G_GetCached \/ FF_Lookup \/ FF_ExtractOk \/ FF_ExtractFails

SpecCache == InitCache /\ [][NextCache]_vars

-----------------------------------------------------------------------------
(* YtDlpService.fetch_formats as one call, with _handle_fetch_error         *)
(* (SpecFetch).  str(error) is one of the messages below; str.lower() and   *)
(* the substring tests are tables over them.                                *)

\* messages the engine's exceptions carry
ErrorMessages ==
    { "Video unavailable", "Private video. Sign in",
      "HTTP Error 404: Not Found", "This livestream has not started",
      "Requested format is not available",
      "Requested format unavailable for this Livestream",
      "Livestream: no Format", "Unable to download video information",
      "Connection reset", "Unsupported URL" }

\* str(error).lower()
lower_msg(m) ==
    CASE m = "Video unavailable" -> "video unavailable"
      [] m = "Private video. Sign in" -> "private video. sign in"
      [] m = "HTTP Error 404: Not Found" -> "http error 404: not found"
      [] m = "This livestream has not started" ->
             "this livestream has not started"
      [] m = "Requested format is not available" ->
             "requested format is not available"
      [] m = "Requested format unavailable for this Livestream" ->
             "requested format unavailable for this livestream"
      [] m = "Livestream: no Format" -> "livestream: no format"
      [] m = "Unable to download video information" ->
             "unable to download video information"
      [] m = "Connection reset" -> "connection reset"
      [] m = "Unsupported URL" -> "unsupported url"
      [] OTHER -> m

\* kw in s, for the keywords of _handle_fetch_error: the strings of the
\* model that hold kw as a substring
substring_in(kw, s) ==
    CASE kw = "not found" -> s \in {"http error 404: not found"}
      [] kw = "unavailable" ->
             s \in {"video unavailable", "Video unavailable",
                    "requested format unavailable for this livestream",
                    "Requested format unavailable for this Livestream"}
      [] kw = "private" -> s \in {"private video. sign in"}
      [] kw = "livestream" ->
             s \in {"this livestream has not started",
                    "This livestream has not started",
                    "requested format unavailable for this livestream",
                    "livestream: no format"}
      [] kw = "format" ->
             s \in {"requested format is not available",
                    "Requested format is not available",
                    "requested format unavailable for this livestream",
                    "Requested format unavailable for this Livestream",
                    "livestream: no format",
                    "unable to download video information",
                    "Unable to download video information"}
      [] kw = "/live/" -> s \in {"/live/x"}
      [] OTHER -> FALSE

\* "/live/" in url
url_has_live(u) == \E i \in 1..Len(u) : substring_in("/live/", u[i])

\* exception classes ydl.extract_info and the catalog builder can raise
\* inside the try block of fetch_formats ("ValueError": any other class)
TypedErrors == {"InvalidUrlError", "UnsupportedPlatformError",
                "VideoNotFoundError", "FormatNotAvailableError",
                "YtdlpFailedError"}
PassedThrough == {"FormatNotAvailableError", "InvalidUrlError",
                  "UnsupportedPlatformError", "VideoNotFoundError"}
EngineErrorClasses == {"UnsupportedError", "DownloadError", "ValueError"}

\* faulty variant: the format test is made before the livestream test
_handle_fetch_error_format_first(error, u) ==
    IF error.class = "UnsupportedError"
    THEN Raise("UnsupportedPlatformError", error.msg)
    ELSE IF error.class = "DownloadError"
    THEN LET error_msg == lower_msg(error.msg) IN
         IF \E kw \in {"not found", "unavailable", "private"} :
                substring_in(kw, error_msg)
         THEN Raise("VideoNotFoundError", "Video not found or unavailable")
         ELSE IF substring_in("format", error_msg)
         THEN Raise("FormatNotAvailableError", "No formats available")
         ELSE IF substring_in("livestream", error_msg) \/ url_has_live(u)
         THEN Raise("YtdlpFailedError",
                    "This livestream may not be available yet or has ended.")
         ELSE Raise("YtdlpFailedError", "Failed to fetch video information")
    ELSE IF error.class \in PassedThrough
    THEN Raise(error.class, error.msg)
    ELSE Raise("YtdlpFailedError", "Unexpected error")

\* YtDlpService._handle_fetch_error(error, safe_url, url): what it raises
_handle_fetch_error(error, u) ==
    IF error.class = "UnsupportedError"
    THEN Raise("UnsupportedPlatformError", error.msg)
    ELSE IF error.class = "DownloadError"
    THEN LET error_msg == lower_msg(error.msg) IN
         IF \E kw \in {"not found", "unavailable", "private"} :
                substring_in(kw, error_msg)
         THEN Raise("VideoNotFoundError", "Video not found or unavailable")
         ELSE IF substring_in("livestream", error_msg) \/ url_has_live(u)
         THEN Raise("YtdlpFailedError",
                    "This livestream may not be available yet or has ended.")
         ELSE IF substring_in("format", error_msg)
         THEN Raise("FormatNotAvailableError", "No formats available")
         ELSE Raise("YtdlpFailedError", "Failed to fetch video information")
    ELSE IF error.class \in PassedThrough
    THEN Raise(error.class, error.msg)
    ELSE Raise("YtdlpFailedError", "Unexpected error")

\* what ydl.extract_info(url, download=False) does: returns a record with
\* the given info["formats"], returns nothing, or raises
EngineReturns(info) == [kind |-> "info", info |-> info, class |-> "none",
                        msg |-> ""]
EngineNone == [kind |-> "None", info |-> <<>>, class |-> "none", msg |-> ""]
EngineRaises(c, m) == [kind |-> "raise", info |-> <<>>, class |-> c,
                       msg |-> m]

\* a call of fetch_formats that raised, the cache left as c
FetchFailed(c, engine_calls_made, e, m) ==
    [ok |-> FALSE, value |-> <<>>, cache |-> c, engine |-> engine_calls_made,
     error |-> e, msg |-> m]

\* YtDlpService.fetch_formats(url) when the engine behaves as given: the
\* result or the error raised, the cache afterwards, and the number of
\* engine calls made
fetch_formats(u, engine_does, stamp) ==
    LET n == normalize_url(u, allowed, block)
        g == get_cached_formats(n.value)
        r == _normalize_formats(engine_does.info)
        v == _sort_formats(_create_merged_formats(r.value) \o r.value)
    IN  IF ~n.ok
        THEN FetchFailed(formats_cache, 0, n.error, n.msg)
        ELSE IF g.hit
        THEN [ok |-> TRUE, value |-> g.value, cache |-> g.cache,
              engine |-> 0, error |-> "none", msg |-> ""]
        ELSE IF engine_does.kind = "raise"
        THEN LET e == _handle_fetch_error(
                          [class |-> engine_does.class,
                           msg |-> engine_does.msg], n.value)
             IN  FetchFailed(g.cache, 1, e.error, e.msg)
        ELSE IF engine_does.kind = "None"
        THEN FetchFailed(g.cache, 1, "VideoNotFoundError",
                         "Video not found or unavailable")
        ELSE IF ~r.ok
        THEN FetchFailed(g.cache, 1, r.error, r.msg)
        ELSE [ok |-> TRUE, value |-> v,
              cache |-> IF ~_cache_enabled THEN g.cache
                        ELSE TTLCache_setitem(_get_cache(g.cache), n.value, v,
                                              now, stamp),
              engine |-> 1, error |-> "none", msg |-> ""]

\* the urls fetch_formats is called with: accepted, accepted after
\* stripping, a live url, rejected
FetchUrls ==
    { <<"https", "://", "example.com", "/v">>,
      <<" ", "https", "://", "example.com", "/v", "\n">>,
      <<"https", "://", "example.com", "/live/x">>,
      <<"ftp", "://", "example.com", "/v">> }

\* what the engine does in a call: a record with a usable catalog, a record
\* without formats, a record whose only format is rejected, nothing, or an
\* exception of one of the classes with one of the messages
EngineOutcomes ==
    { EngineReturns(info) : info \in EngineInfos \cup {<<>>} }
    \cup {EngineNone}
    \cup { EngineRaises(c, m) : c \in EngineErrorClasses, m \in ErrorMessages }

\* most fetch_formats calls explored in one run
MaxFetches == 2

InitFetch ==
    /\ allowed = {"http", "https"}
    /\ block = TRUE
    /\ op = "none"
    /\ url = <<>>
    /\ format_id = <<>>
    /\ pc = "idle"
    /\ max_lines = 0
    /\ Idle
    /\ ServiceIdle

\* one call of YtDlpService.fetch_formats(u), from its first statement to
\* its return or raise
FE_FetchFormats ==
    /\ pc = "idle" /\ calls < MaxFetches
    /\ \E u \in FetchUrls, e \in EngineOutcomes :
        LET r == fetch_formats(u, e, calls + 1) IN
        /\ op' = "fetch_formats" /\ url' = u
        /\ engine' = IF r.engine = 1 THEN e ELSE EngineIdle
        /\ exc' = IF r.ok THEN NoExc ELSE [type |-> r.error, msg |-> r.msg]
        /\ ret' = IF r.ok
                  THEN [kind |-> "VideoInfo", value |-> r.value, dir |-> "None"]
                  ELSE NoneRet
        /\ formats_cache' = r.cache
        /\ engine_calls' = engine_calls + r.engine
    /\ calls' = calls + 1
    /\ UNCHANGED <<allowed, block, regvars, format_id, catvars, ttl_seconds, maxsize,
                   now, catalog, stderr_written, stderr_pipe, stderr_buffer,
                   stderr_stop, dpc, pipes_open, reaped, lock_owner, pc,
                   validated, spawned, cause, procvars, rdvars, task>>

SpecFetch == InitFetch /\ [][FE_FetchFormats]_vars

-----------------------------------------------------------------------------
(* download_video_post (videos.py): the catalog is resolved, the format is  *)
(* looked up, then the download operation is started (SpecPost)             *)

\* is_merged_format of download_video_post
is_merged_format(f) ==
    \/ is_two_stream(f)
    \/ f \in { <<"best">>, <<"bestvideo">> }
    \/ /\ Len(f) >= 2
       /\ f[1] \in {"best", "bestvideo"}
       /\ f[2] \in {"[vcodec^=avc1]", "[vcodec^=avc]", "[height<="}

\* urls and format ids of the requests: ids of raw and merged entries, an
\* id no catalog holds, a selector keyword no catalog holds
PostUrls ==
    { <<"https", "://", "example.com", "/v">>,
      <<"ftp", "://", "example.com", "/v">> }
PostFormatIds ==
    { <<"22">>, <<"140">>, <<"999">>, <<"best">>, BestSelector,
      TierSelector(720) }

\* what the engine does for these requests
PostEngine ==
    { EngineReturns(<< Raw(<<"22">>, <<>>, 720, 0, <<>>, "mp4", "avc1",
                           "mp4a", 7, 0),
                       Raw(<<"140">>, <<>>, 0, 128, <<>>, "m4a", "none",
                           "mp4a", 5, 0) >>),
      EngineReturns(<< Raw(<<"140">>, <<>>, 0, 128, <<>>, "m4a", "none",
                           "mp4a", 5, 0) >>),
      EngineNone,
      EngineRaises("DownloadError", "Connection reset") }

InitPost ==
    /\ allowed = {"http", "https"}
    /\ block = TRUE
    /\ op = "post"
    /\ url \in PostUrls
    /\ format_id \in PostFormatIds
    /\ pc = "idle"
    /\ max_lines = 0
    /\ Idle
    /\ ServiceIdle

\* an earlier POST /formats: fetch_formats(request.url) for some url
E_Formats ==
    /\ op = "post" /\ pc = "idle" /\ calls = 0
    /\ \E u \in PostUrls, e \in PostEngine :
        LET r == fetch_formats(u, e, 1) IN
        /\ formats_cache' = r.cache
        /\ engine_calls' = engine_calls + r.engine
    /\ calls' = 1
    /\ UNCHANGED <<allowed, block, regvars, op, url, format_id, catvars, ttl_seconds,
                   maxsize, now, catalog, stderr_written, stderr_pipe,
                   stderr_buffer, stderr_stop, dpc, pipes_open, reaped,
                   engine, lock_owner, supvars, procvars, rdvars, task>>

\* video_info = YtDlpService.get_cached_formats(request.url)
DP_GetCached ==
    /\ op = "post" /\ pc = "idle"
    /\ LET r == get_cached_formats(url) IN
       /\ formats_cache' = r.cache
       /\ IF ~r.ok
          THEN /\ exc' = [type |-> r.error, msg |-> r.msg]
               /\ pc' = "raised"
               /\ UNCHANGED catalog
          ELSE IF r.hit
          THEN /\ catalog' = [kind |-> "VideoInfo", value |-> r.value,
                              dir |-> "None"]
               /\ pc' = "select"
               /\ UNCHANGED exc
          ELSE /\ pc' = "fetch"
               /\ UNCHANGED <<exc, catalog>>
    /\ calls' = calls + 1
    /\ UNCHANGED <<allowed, block, regvars, op, url, format_id, catvars, ttl_seconds,
                   maxsize, now, engine_calls, stderr_written, stderr_pipe,
                   stderr_buffer, stderr_stop, dpc, pipes_open, reaped,
                   engine, lock_owner, ret, validated, spawned, cause,
                   procvars, rdvars, task>>

\* if video_info is None:
\*     video_info = await asyncio.to_thread(YtDlpService.fetch_formats, ...)
DP_Fetch ==
    /\ op = "post" /\ pc = "fetch"
    /\ \E e \in PostEngine :
        LET r == fetch_formats(url, e, calls + 1) IN
        /\ formats_cache' = r.cache
        /\ engine_calls' = engine_calls + r.engine
        /\ engine' = IF r.engine = 1 THEN e ELSE EngineIdle
        /\ IF r.ok
           THEN /\ catalog' = [kind |-> "VideoInfo", value |-> r.value,
                               dir |-> "None"]
                /\ pc' = "select"
                /\ UNCHANGED exc
           ELSE /\ exc' = [type |-> r.error, msg |-> r.msg]
                /\ pc' = "raised"
                /\ UNCHANGED catalog
    /\ calls' = calls + 1
    /\ UNCHANGED <<allowed, block, regvars, op, url, format_id, catvars, ttl_seconds,
                   maxsize, now, stderr_written, stderr_pipe, stderr_buffer,
                   stderr_stop, dpc, pipes_open, reaped, lock_owner, ret,
                   validated, spawned, cause, procvars, rdvars, task>>

\* faulty variant: the format is not looked up in the catalog
DP_Select_no_lookup ==
    /\ op = "post" /\ pc = "select"
    /\ pc' = "dispatch"
    /\ UNCHANGED <<cfgvars, exc, ret, validated, spawned, cause, procvars,
                   rdvars, task>>

\* selected_format = next((fmt for fmt in video_info.formats
\*                         if fmt.id == request.format_id), None)
\* if not selected_format: raise FormatNotAvailableError(...)
DP_Select ==
    /\ op = "post" /\ pc = "select"
    /\ IF \E i \in 1..Len(catalog.value) : catalog.value[i].id = format_id
       THEN /\ pc' = "dispatch"
            /\ UNCHANGED exc
       ELSE /\ exc' = [type |-> "FormatNotAvailableError",
                       msg |-> "Format not found in available formats"]
            /\ pc' = "raised"
    /\ UNCHANGED <<cfgvars, ret, validated, spawned, cause, procvars, rdvars,
                   task>>

\* if is_merged_format: YtDlpService.download_merged_to_file(request.url,
\* request.format_id) is called
DP_CallMerged ==
    /\ op = "post" /\ pc = "dispatch"
    /\ is_merged_format(format_id)
    /\ op' = "merged"
    /\ pc' = "check"
    /\ UNCHANGED <<allowed, block, regvars, strvars, url, format_id, catvars, cachevars,
                   exc, ret, validated, spawned, cause, procvars, rdvars,
                   task>>

\* single-stream formats: StreamingResponse(_stream_download(...)), whose
\* first statement is YtDlpService.download_format(url, format_id)
DP_StreamDownload ==
    /\ op = "post" /\ pc = "dispatch"
    /\ ~is_merged_format(format_id)
    /\ op' = "format"
    /\ pc' = "check"
    /\ UNCHANGED <<allowed, block, regvars, strvars, url, format_id, catvars, cachevars,
                   exc, ret, validated, spawned, cause, procvars, rdvars,
                   task>>

NextPost ==
    \/ E_Formats \/ T_Tick \/ DP_GetCached \/ DP_Fetch \/ DP_Select
    \/ DP_CallMerged \/ DP_StreamDownload \/ Merged \/ Single

SpecPost == InitPost /\ [][NextPost]_vars

-----------------------------------------------------------------------------
(* _stream_download (videos.py): the generator that pumps the stdout of a   *)
(* download_format subprocess, and its stderr drainer thread (SpecStream).  *)
(* Bytes of stderr are numbered in the order written; sizes are scaled.     *)

\* stderr_limit = 64 * 1024, and the size of one process.stderr.read(4096),
\* scaled down
stderr_limit == 3
read_size == 2

\* most stdout chunks and stderr bytes the subprocess writes in one run, and
\* the number of units an OS pipe holds before the writer blocks
MaxChunks == 2
MaxErr == 5
PipeCapacity == 2

\* one stream of one request: a url the gate accepts or rejects, a format id
\* the pattern accepts or rejects
InitStream ==
    /\ allowed = {"http", "https"}
    /\ block = TRUE
    /\ op = "stream"
    /\ url \in { <<"https", "://", "example.com", "/v">>,
                 <<"http", "://", "localhost", "/v">> }
    /\ format_id \in { <<"2", "2">>, <<"2", ";">> }
    /\ pc = "start"
    /\ max_lines = MaxChunks
    /\ Idle
    /\ ServiceIdle

\* process = YtDlpService.download_format(url, format_id): raises
\* InvalidUrlError or YtdlpFailedError, or returns the started process
SD_DownloadFormat ==
    /\ op = "stream" /\ pc = "start"
    /\ LET n == normalize_url(url, allowed, block) IN
       IF ~FORMAT_ID_PATTERN_match(format_id)
       THEN /\ exc' = [type |-> "InvalidUrlError", msg |-> "Invalid format_id"]
            /\ pc' = "ended"
            /\ UNCHANGED <<proc, spawned, pipes_open>>
       ELSE IF ~n.ok
       THEN /\ exc' = [type |-> n.error, msg |-> n.msg]
            /\ pc' = "ended"
            /\ UNCHANGED <<proc, spawned, pipes_open>>
       ELSE \/ /\ proc' = "running"
               /\ spawned' = spawned + 1
               /\ pipes_open' = {"stdout", "stderr"}
               /\ pc' = "start_thread"
               /\ UNCHANGED exc
            \/ /\ exc' = [type |-> "YtdlpFailedError",
                          msg |-> "Failed to start download"]
               /\ pc' = "ended"
               /\ UNCHANGED <<proc, spawned, pipes_open>>
    /\ UNCHANGED <<allowed, block, regvars, op, url, format_id, catvars, cachevars,
                   catalog, stderr_written, stderr_pipe, stderr_buffer,
                   stderr_stop, dpc, reaped, engine, lock_owner, ret,
                   validated, cause, return_code, pipe, transcript, max_lines,
                   tdir, files, rdvars, task>>

\* stderr_thread = threading.Thread(target=_drain_stderr_blocking, ...)
\* stderr_thread.start()
SD_StartDrainer ==
    /\ op = "stream" /\ pc = "start_thread"
    /\ dpc' = "loop"
    /\ pc' = "pump"
    /\ UNCHANGED <<allowed, block, regvars, op, url, format_id, catvars, cachevars,
                   catalog, stderr_written, stderr_pipe, stderr_buffer,
                   stderr_stop, pipes_open, reaped, engine, lock_owner,
                   supvars_but_pc, procvars, rdvars, task>>

\* chunk = await asyncio.to_thread(process.stdout.read, chunk_size): a chunk,
\* or end of file once the subprocess is gone and the pipe is drained
SD_Read ==
    /\ op = "stream" /\ pc = "pump"
    /\ IF pipe # <<>>
       THEN pipe' = Tail(pipe) /\ pc' = "yield"
       ELSE proc # "running" /\ pipe' = pipe /\ pc' = "wait"
    /\ UNCHANGED <<cfgvars, supvars_but_pc, proc, return_code, transcript,
                   max_lines, tdir, files, rdvars, task>>

\* the read raises: control reaches "except Exception as e"
SD_ReadRaises ==
    /\ op = "stream" /\ pc = "pump"
    /\ exc' = [type |-> "OSError", msg |-> "read"]
    /\ cause' = "exception"
    /\ pc' = "except"
    /\ UNCHANGED <<cfgvars, ret, validated, spawned, procvars, rdvars, task>>

\* yield chunk: the response takes the chunk and asks for the next one
SD_Yield ==
    /\ op = "stream" /\ pc = "yield"
    /\ pc' = "pump"
    /\ UNCHANGED <<cfgvars, supvars_but_pc, procvars, rdvars, task>>

\* the client disconnects: CancelledError at an await, or GeneratorExit at
\* the yield, neither of which "except Exception" catches
SD_Cancel ==
    /\ op = "stream" /\ pc \in {"pump", "yield", "wait", "except_wait"}
    /\ exc' = [type |-> "CancelledError", msg |-> ""]
    /\ cause' = "disconnect"
    /\ pc' = "finally"
    /\ UNCHANGED <<cfgvars, ret, validated, spawned, procvars, rdvars, task>>

\* return_code = await asyncio.to_thread(process.wait); a non-zero status
\* logs the stderr buffer
SD_Wait ==
    /\ op = "stream" /\ pc = "wait"
    /\ proc # "running"
    /\ reaped' = TRUE
    /\ ret' = IF return_code # 0
              THEN [kind |-> "log", value |-> stderr_buffer, dir |-> "None"]
              ELSE ret
    /\ cause' = "eof"
    /\ pc' = "finally"
    /\ UNCHANGED <<allowed, block, regvars, op, url, format_id, catvars, cachevars,
                   catalog, stderr_written, stderr_pipe, stderr_buffer,
                   stderr_stop, dpc, pipes_open, engine, lock_owner, exc,
                   validated, spawned, procvars, rdvars, task>>

\* except Exception: if process.poll() is None: process.terminate()
SD_ExceptPoll ==
    /\ op = "stream" /\ pc = "except"
    /\ IF proc = "running"
       THEN /\ proc' = "killed" /\ return_code' = -15
            /\ pc' = "except_wait"
            /\ UNCHANGED reaped
       ELSE /\ reaped' = TRUE
            /\ pc' = "finally"
            /\ UNCHANGED <<proc, return_code>>
    /\ UNCHANGED <<allowed, block, regvars, op, url, format_id, catvars, cachevars,
                   catalog, stderr_written, stderr_pipe, stderr_buffer,
                   stderr_stop, dpc, pipes_open, engine, lock_owner,
                   supvars_but_pc, pipe, transcript, max_lines, tdir, files,
                   rdvars, task>>

\* await asyncio.to_thread(process.wait); raise
SD_ExceptWait ==
    /\ op = "stream" /\ pc = "except_wait"
    /\ reaped' = TRUE
    /\ pc' = "finally"
    /\ UNCHANGED <<allowed, block, regvars, op, url, format_id, catvars, cachevars,
                   catalog, stderr_written, stderr_pipe, stderr_buffer,
                   stderr_stop, dpc, pipes_open, engine, lock_owner,
                   supvars_but_pc, procvars, rdvars, task>>

\* finally: stderr_stop.set()
SD_FinallyStop ==
    /\ op = "stream" /\ pc = "finally"
    /\ stderr_stop' = TRUE
    /\ pc' = "finally_poll"
    /\ UNCHANGED <<allowed, block, regvars, op, url, format_id, catvars, cachevars,
                   catalog, stderr_written, stderr_pipe, stderr_buffer, dpc,
                   pipes_open, reaped, engine, lock_owner, supvars_but_pc,
                   procvars, rdvars, task>>

\* if process.poll() is None: process.terminate()
SD_FinallyPoll ==
    /\ op = "stream" /\ pc = "finally_poll"
    /\ IF proc = "running"
       THEN /\ proc' = "killed" /\ return_code' = -15
            /\ pc' = "finally_wait"
            /\ UNCHANGED reaped
       ELSE /\ reaped' = TRUE
            /\ pc' = "finally_join"
            /\ UNCHANGED <<proc, return_code>>
    /\ UNCHANGED <<allowed, block, regvars, op, url, format_id, catvars, cachevars,
                   catalog, stderr_written, stderr_pipe, stderr_buffer,
                   stderr_stop, dpc, pipes_open, engine, lock_owner,
                   supvars_but_pc, pipe, transcript, max_lines, tdir, files,
                   rdvars, task>>

\* await asyncio.to_thread(process.wait)
SD_FinallyWait ==
    /\ op = "stream" /\ pc = "finally_wait"
    /\ reaped' = TRUE
    /\ pc' = "finally_join"
    /\ UNCHANGED <<allowed, block, regvars, op, url, format_id, catvars, cachevars,
                   catalog, stderr_written, stderr_pipe, stderr_buffer,
                   stderr_stop, dpc, pipes_open, engine, lock_owner,
                   supvars_but_pc, procvars, rdvars, task>>

\* stderr_thread.join(timeout=0.5): the drainer has ended or the half second
\* has passed; the generator finishes
SD_FinallyJoin ==
    /\ op = "stream" /\ pc = "finally_join"
    /\ pc' = "ended"
    /\ UNCHANGED <<cfgvars, supvars_but_pc, procvars, rdvars, task>>

\* the subprocess writes a chunk of the stream to its stdout pipe
Q_WriteStdout ==
    /\ op = "stream" /\ proc = "running"
    /\ Len(pipe) < PipeCapacity /\ Len(transcript) < max_lines
    /\ pipe' = Append(pipe, OtherLine)
    /\ transcript' = Append(transcript, OtherLine)
    /\ UNCHANGED <<cfgvars, supvars, proc, return_code, max_lines, tdir,
                   files, rdvars, task>>

\* the subprocess writes one more byte to its stderr pipe
Q_WriteStderr ==
    /\ op = "stream" /\ proc = "running"
    /\ Len(stderr_pipe) < PipeCapacity /\ stderr_written < MaxErr
    /\ stderr_written' = stderr_written + 1
    /\ stderr_pipe' = Append(stderr_pipe, stderr_written + 1)
    /\ UNCHANGED <<allowed, block, regvars, op, url, format_id, catvars, cachevars,
                   catalog, stderr_buffer, stderr_stop, dpc, pipes_open,
                   reaped, engine, lock_owner, supvars, procvars, rdvars,
                   task>>

\* the subprocess exits by itself
Q_Exit ==
    /\ op = "stream" /\ proc = "running"
    /\ proc' = "exited"
    /\ \E rc \in {0, 1} : return_code' = rc
    /\ UNCHANGED <<cfgvars, supvars, pipe, transcript, max_lines, tdir, files,
                   rdvars, task>>

\* while not stderr_stop.is_set():
D_Loop ==
    /\ op = "stream" /\ dpc = "loop"
    /\ dpc' = IF stderr_stop THEN "done" ELSE "read"
    /\ UNCHANGED <<allowed, block, regvars, op, url, format_id, catvars, cachevars,
                   catalog, stderr_written, stderr_pipe, stderr_buffer,
                   stderr_stop, pipes_open, reaped, engine, lock_owner,
                   supvars, procvars, rdvars, task>>

\* the buffer after data has been read
extend_buffer(buffer, data) ==
    IF Len(buffer) < stderr_limit
    THEN buffer \o SubSeq(data, 1, Min(Len(data), stderr_limit - Len(buffer)))
    ELSE buffer

\* faulty variant: the drainer returns once the buffer is full
D_Read_until_full ==
    /\ op = "stream" /\ dpc = "read"
    /\ \/ Len(stderr_pipe) >= read_size
       \/ proc # "running"
    /\ LET n == Min(read_size, Len(stderr_pipe))
           data == SubSeq(stderr_pipe, 1, n)
       IN  /\ stderr_pipe' = SubSeq(stderr_pipe, n + 1, Len(stderr_pipe))
           /\ stderr_buffer' = extend_buffer(stderr_buffer, data)
           /\ dpc' = IF data = <<>> \/ Len(stderr_buffer') >= stderr_limit
                     THEN "done" ELSE "loop"
    /\ UNCHANGED <<allowed, block, regvars, op, url, format_id, catvars, cachevars,
                   catalog, stderr_written, stderr_stop, pipes_open, reaped,
                   engine, lock_owner, supvars, procvars, rdvars, task>>

\* data = process.stderr.read(4096): returns read_size bytes, or fewer at
\* end of file; if not data: break; if len(stderr_buffer) < stderr_limit:
\* stderr_buffer.extend(data[:remaining])
D_Read ==
    /\ op = "stream" /\ dpc = "read"
    /\ \/ Len(stderr_pipe) >= read_size
       \/ proc # "running"
    /\ LET n == Min(read_size, Len(stderr_pipe))
           data == SubSeq(stderr_pipe, 1, n)
       IN  /\ stderr_pipe' = SubSeq(stderr_pipe, n + 1, Len(stderr_pipe))
           /\ stderr_buffer' = extend_buffer(stderr_buffer, data)
           /\ dpc' = IF data = <<>> THEN "done" ELSE "loop"
    /\ UNCHANGED <<allowed, block, regvars, op, url, format_id, catvars, cachevars,
                   catalog, stderr_written, stderr_stop, pipes_open, reaped,
                   engine, lock_owner, supvars, procvars, rdvars, task>>

StreamDownload ==
    \/ SD_DownloadFormat \/ SD_StartDrainer \/ SD_Read \/ SD_ReadRaises
    \/ SD_Yield \/ SD_Cancel \/ SD_Wait \/ SD_ExceptPoll \/ SD_ExceptWait
    \/ SD_FinallyStop \/ SD_FinallyPoll \/ SD_FinallyWait \/ SD_FinallyJoin

NextStream ==
    \/ StreamDownload
    \/ Q_WriteStdout \/ Q_WriteStderr \/ Q_Exit
    \/ D_Loop \/ D_Read

SpecStream == InitStream /\ [][NextStream]_vars

-----------------------------------------------------------------------------
(* YtDlpService.build_download_command (SpecCommand).  The command is a     *)
(* list of arguments, each argument a sequence of tokens.                   *)

\* the arguments a list of flags and values stands for
Args(words) == [i \in 1..Len(words) |-> <<words[i]>>]

\* build_download_command(url, format_id, progress) under settings st:
\* raises what normalize_url raises, or returns the command
build_download_command(u, f, progress, st) ==
    LET n == normalize_url(u, allowed, block) IN
    IF ~n.ok THEN n
    ELSE Ok(
           Args(<<"yt-dlp", "-f">>) \o <<f>>
        \o Args(<<"-o", "-", "-c", "--no-warnings", "--quiet", "--no-playlist",
                  "--concurrent-fragments", "8", "--throttled-rate", "100K",
                  "--buffer-size", "128K", "--socket-timeout", "30",
                  "--retries", "10", "--fragment-retries", "10",
                  "--extractor-retries", "3", "--file-access-retries", "3">>)
        \o (IF st.sleep_requests THEN Args(<<"--sleep-requests", "1">>)
            ELSE <<>>)
        \o (IF st.user_agent THEN Args(<<"--user-agent", "UA">>) ELSE <<>>)
        \o (IF st.prefer_free THEN Args(<<"--prefer-free-formats">>)
            ELSE <<>>)
        \o (IF st.http_chunk_size THEN Args(<<"--http-chunk-size", "50M">>)
            ELSE <<>>)
        \o (IF st.sponsorblock
            THEN Args(<<"--sponsorblock-remove", "sponsor">>) ELSE <<>>)
        \o (IF st.cookies THEN Args(<<"--cookies-from-browser", "firefox">>)
            ELSE <<>>)
        \o (IF st.proxy THEN Args(<<"--proxy", "socks5://p">>) ELSE <<>>)
        \o (IF progress THEN Args(<<"--newline", "--progress">>) ELSE <<>>)
        \o <<n.value>> )

\* the format ids of tests/test_services.py (TestBuildDownloadCommand) and
\* of the catalog
CommandFormatIds ==
    { <<"22">>, <<"140">>, <<"251">>, <<"bestaudio">>,
      <<"bestvideo", "[vcodec^=avc1]", "+", "bestaudio", "[acodec^=mp4a]">>,
      <<"bestvideo", "[vcodec^=avc1]", "+", "bestaudio", "[acodec^=mp4a]",
        "/", "best", "[vcodec^=avc1]">>,
      BestSelector, TierSelector(1080) }

\* one call of build_download_command under any settings
InitCommand ==
    /\ allowed = {"http", "https"}
    /\ block = TRUE
    /\ op = "command"
    /\ url \in { <<"https", "://", "example.com", "/v">>,
                 <<"ftp", "://", "example.com", "/v">> }
    /\ format_id \in CommandFormatIds
    /\ settings \in [sleep_requests : BOOLEAN, user_agent : BOOLEAN,
                     prefer_free : BOOLEAN, http_chunk_size : BOOLEAN,
                     sponsorblock : BOOLEAN, cookies : BOOLEAN,
                     proxy : BOOLEAN]
    /\ pc = "build"
    /\ max_lines = 0
    /\ IdleRun
    /\ ServiceIdle

\* cmd = YtDlpService.build_download_command(url, format_id, progress)
BC_Build ==
    /\ op = "command" /\ pc = "build"
    /\ \E progress \in BOOLEAN :
         LET r == build_download_command(url, format_id, progress, settings)
         IN  IF r.ok
             THEN /\ ret' = [kind |-> "cmd", value |-> r.value,
                             dir |-> "None"]
                  /\ pc' = "returned"
                  /\ UNCHANGED exc
             ELSE /\ exc' = [type |-> r.error, msg |-> r.msg]
                  /\ pc' = "raised"
                  /\ UNCHANGED ret
    /\ UNCHANGED <<cfgvars, validated, spawned, cause, procvars, rdvars, task>>

SpecCommand == InitCommand /\ [][BC_Build]_vars

-----------------------------------------------------------------------------
(* The reader thread on its own, from the moment it is started, with        *)
(* longer transcripts (SpecReader)                                          *)

\* longest stdout transcript explored for the reader on its own
ReaderLines == 4

\* the state W_StartReader leaves for a two-stream request: validated, temp
\* directory made, task marked downloading, subprocess and reader started
InitReader ==
    /\ allowed = {"http", "https"}
    /\ block = TRUE
    /\ op = "tracked"
    /\ url = <<"https", "://", "example.com", "/v">>
    /\ format_id = <<"1", "+", "2">>
    /\ pc = "wait"
    /\ max_lines = ReaderLines
    /\ exc = NoExc /\ ret = NoneRet /\ validated = {"format", "url"}
    /\ spawned = 1 /\ cause = "none"
    /\ proc = "running" /\ return_code = -1 /\ pipe = <<>> /\ transcript = <<>>
    /\ tdir = "exists" /\ files = "none"
    /\ rpc = "read" /\ line = NoLine /\ stream_index = -1
    /\ task = [NewTask EXCEPT !.status = "downloading", !.phase = "video"]
    /\ catalog = NoneRet
    /\ stderr_written = 0 /\ stderr_pipe = <<>> /\ stderr_buffer = <<>>
    /\ stderr_stop = FALSE /\ dpc = "idle"
    /\ pipes_open = {} /\ reaped = FALSE
    /\ engine = EngineIdle
    /\ lock_owner = "none"
    /\ _tasks = NoTasks /\ heap = <<>> /\ dl = <<>> /\ dirs = {}
    /\ swpc = "idle" /\ stale_ids = <<>> /\ sw_task = 0
    /\ got = NoGot
    /\ settings = DefaultSettings
    /\ ServiceIdle

NextReader == Subprocess \/ Reader

SpecReader == InitReader /\ [][NextReader]_vars

-----------------------------------------------------------------------------
(* The task registry (download_tasks.py) with the tracked downloads that    *)
(* write to its records and the staleness sweep (SpecRegistry).  Records    *)
(* are numbered in the order created; a temp directory carries the number   *)
(* of the record whose download made it; 0 stands for None.                 *)

\* most DownloadTask records created in one run
MaxRecs == 2

\* max_age of cleanup_stale (default 1800 seconds), in ticks of the clock
max_age == 1

\* everything the registry leaves alone
nonreg == <<allowed, block, strvars, op, url, format_id, catvars, cachevars,
            supvars, procvars, rdvars, task, settings>>

\* DownloadTask(task_id=...) created at time t
RegTask(t) == [status |-> "pending", progress |-> 0, file_path |-> 0,
               temp_dir |-> 0, created_at |-> t]

InitRegistry ==
    /\ allowed = {"http", "https"}
    /\ block = TRUE
    /\ op = "registry"
    /\ url = <<"https", "://", "example.com", "/v">>
    /\ format_id = <<"1", "+", "2">>
    /\ pc = "idle"
    /\ max_lines = 0
    /\ Idle
    /\ ServiceIdle

\* create_task(task_id): task = DownloadTask(...); with _lock:
\* _tasks[task_id] = task; return task
RG_Create(id) ==
    /\ op = "registry" /\ Len(heap) < MaxRecs
    /\ heap' = Append(heap, RegTask(now))
    /\ dl' = Append(dl, "none")
    /\ _tasks' = [_tasks EXCEPT ![id] = Len(heap) + 1]
    /\ got' = [call |-> "create", id |-> id, rec |-> Len(heap) + 1]
    /\ UNCHANGED <<nonreg, dirs, swpc, stale_ids, sw_task>>

\* get_task(task_id): with _lock: return _tasks.get(task_id)
RG_Get(id) ==
    /\ op = "registry"
    /\ got' = [call |-> "get", id |-> id, rec |-> _tasks[id]]
    /\ UNCHANGED <<nonreg, _tasks, heap, dl, dirs, swpc, stale_ids,
                   sw_task>>

\* faulty variant: remove_task also deletes the temp directory of the task
RG_Remove_rmtree(id) ==
    /\ op = "registry"
    /\ got' = [call |-> "remove", id |-> id, rec |-> _tasks[id]]
    /\ _tasks' = [_tasks EXCEPT ![id] = 0]
    /\ dirs' = IF _tasks[id] # 0
               THEN dirs \ {heap[_tasks[id]].temp_dir} ELSE dirs
    /\ UNCHANGED <<nonreg, heap, dl, swpc, stale_ids, sw_task>>

\* remove_task(task_id): with _lock: return _tasks.pop(task_id, None)
RG_Remove(id) ==
    /\ op = "registry"
    /\ got' = [call |-> "remove", id |-> id, rec |-> _tasks[id]]
    /\ _tasks' = [_tasks EXCEPT ![id] = 0]
    /\ UNCHANGED <<nonreg, heap, dl, dirs, swpc, stale_ids,
                   sw_task>>

\* download_merged_with_progress(url, format_id, task) for record r, up to
\* temp_dir = tempfile.mkdtemp(prefix="ytdl_"); task.status = "downloading"
DL_Mkdtemp(r) ==
    /\ op = "registry" /\ dl[r] = "none"
    /\ dirs' = dirs \cup {r}
    /\ heap' = [heap EXCEPT ![r].status = "downloading"]
    /\ dl' = [dl EXCEPT ![r] = "running"]
    /\ UNCHANGED <<nonreg, _tasks, swpc, stale_ids, sw_task,
                   got>>

\* its completion: task.file_path = actual_path; task.temp_dir = temp_dir;
\* ...; task.status = "completed"
DL_Complete(r) ==
    /\ op = "registry" /\ dl[r] = "running"
    /\ heap' = [heap EXCEPT ![r].file_path = r, ![r].temp_dir = r,
                            ![r].progress = 10000,
                            ![r].status = "completed"]
    /\ dl' = [dl EXCEPT ![r] = "completed"]
    /\ UNCHANGED <<nonreg, _tasks, dirs, swpc, stale_ids, sw_task,
                   got>>

\* its failure branches: shutil.rmtree(temp_dir, ignore_errors=True);
\* task.status = "failed"
DL_Fail(r) ==
    /\ op = "registry" /\ dl[r] = "running"
    /\ dirs' = dirs \ {r}
    /\ heap' = [heap EXCEPT ![r].status = "failed"]
    /\ dl' = [dl EXCEPT ![r] = "failed"]
    /\ UNCHANGED <<nonreg, _tasks, swpc, stale_ids, sw_task,
                   got>>

\* the ids of the registered tasks older than max_age at time t, in the
\* order of the ids
stale_at(t) ==
    LET is_stale(id) == /\ _tasks[id] # 0
                        /\ t - heap[_tasks[id]].created_at > max_age
    IN  (IF is_stale("a") THEN <<"a">> ELSE <<>>)
     \o (IF is_stale("b") THEN <<"b">> ELSE <<>>)

\* cleanup_stale: now = time.time(); with _lock: collect stale_ids
SW_Collect ==
    /\ op = "registry" /\ swpc = "idle"
    /\ stale_ids' = stale_at(now)
    /\ swpc' = "loop"
    /\ UNCHANGED <<nonreg, _tasks, heap, dl, dirs, sw_task, got>>

\* for tid in stale_ids: task = remove_task(tid)
SW_Remove ==
    /\ op = "registry" /\ swpc = "loop" /\ stale_ids # <<>>
    /\ sw_task' = _tasks[Head(stale_ids)]
    /\ _tasks' = [_tasks EXCEPT ![Head(stale_ids)] = 0]
    /\ stale_ids' = Tail(stale_ids)
    /\ swpc' = "rmtree"
    /\ UNCHANGED <<nonreg, heap, dl, dirs, got>>

\* if task and task.temp_dir: shutil.rmtree(task.temp_dir, ...)
SW_Rmtree ==
    /\ op = "registry" /\ swpc = "rmtree"
    /\ dirs' = IF sw_task # 0 /\ heap[sw_task].temp_dir # 0
               THEN dirs \ {heap[sw_task].temp_dir} ELSE dirs
    /\ sw_task' = 0
    /\ swpc' = "loop"
    /\ UNCHANGED <<nonreg, _tasks, heap, dl, stale_ids, got>>

\* the loop of cleanup_stale is over
SW_Done ==
    /\ op = "registry" /\ swpc = "loop" /\ stale_ids = <<>>
    /\ swpc' = "idle"
    /\ UNCHANGED <<nonreg, _tasks, heap, dl, dirs, stale_ids,
                   sw_task, got>>

Sweep == SW_Collect \/ SW_Remove \/ SW_Rmtree \/ SW_Done

NextRegistry ==
    \/ T_Tick
    \/ \E id \in TaskIds : RG_Create(id) \/ RG_Get(id) \/ RG_Remove(id)
    \/ \E r \in 1..Len(heap) : DL_Mkdtemp(r) \/ DL_Complete(r) \/ DL_Fail(r)
    \/ Sweep

SpecRegistry == InitRegistry /\ [][NextRegistry]_vars

-----------------------------------------------------------------------------
(* Validation and cleanup of the three download operations (Spec)          *)

\* the tracked operation has ended, by returning or by raising
TrackedEnded == op = "tracked" /\ pc \in {"returned", "raised"}

\* C5: when download_merged_with_progress has ended, the task is completed
\* with file_path and temp_dir populated, or failed with error set.
C5_TrackedEndsTerminal ==
    TrackedEnded =>
        \/ /\ task.status = "completed"
           /\ task.file_path # "None" /\ task.temp_dir # "None"
        \/ /\ task.status = "failed"
           /\ task.error # "None"

\* the run is over: the tracked operation has ended, or the merged download
\* has raised or its response has ended
RunEnded ==
    \/ TrackedEnded
    \/ op = "merged" /\ pc \in {"raised", "ended"}

\* C6: no run ends with a temp directory that still exists and that neither
\* the caller nor the task refers to.
C6_TempDirReleased ==
    (RunEnded /\ tdir = "exists") =>
        (op = "tracked" /\ task.temp_dir = TempDirName)

\* outcome of the merged download's subprocess
MergedRanBadly ==
    op = "merged" /\ spawned = 1
    /\ (proc = "killed" \/ return_code # 0 \/ files # "one")
MergedRanWell ==
    op = "merged" /\ spawned = 1
    /\ proc = "exited" /\ return_code = 0 /\ files = "one"

\* C7: in download_merged_to_file, after a timeout, a non-zero exit or an
\* exit that leaves no visible file, YtdlpFailedError is raised only with
\* the temp directory already removed and nothing is returned; after exit 0
\* with a file the operation returns (path, temp_dir) and the directory
\* still exists at return.
C7_MergedToFileOutcome ==
    /\ (op = "merged" /\ exc.type = "YtdlpFailedError")
          => (MergedRanBadly /\ tdir = "removed" /\ ret = NoneRet)
    /\ (MergedRanBadly /\ pc \notin {"check_rc", "listdir", "fail"})
          => (exc.type = "YtdlpFailedError" /\ pc = "raised")
    /\ (op = "merged" /\ pc = "returned")
          => /\ MergedRanWell
             /\ ret = [kind |-> "path", value |-> <<OutFileName>>,
                       dir |-> TempDirName]
             /\ tdir = "exists"
    /\ (MergedRanWell /\ pc \notin {"check_rc", "listdir", "return"})
          => (exc = NoExc /\ ret.kind = "path")

\* a failing exit of download_merged_to_file: exit 0 with only a hidden file
C7_Witness ==
    /\ op = "merged" /\ return_code = 0 /\ files = "hidden"
    /\ exc.type = "YtdlpFailedError" /\ tdir = "removed"

\* C8: in each download operation the selector check and normalize_url have
\* both succeeded before a temp directory exists or a subprocess is started,
\* and one invocation starts at most one subprocess.
C8_ValidateBeforeSpawn ==
    /\ (tdir # "absent" \/ spawned > 0 \/ proc # "none")
          => validated = {"format", "url"}
    /\ spawned <= 1

\* a download operation that has started its subprocess
C8_Witness ==
    /\ op \in {"format", "tracked"} /\ spawned = 1 /\ proc = "running"
    /\ validated = {"format", "url"}

\* a selector that is empty or holds a character outside
\* A-Z a-z 0-9 + [ ] < > = ^ : / - _ .
BadFormatId(f) == f = <<>> \/ \E i \in 1..Len(f) : f[i] \notin FormatIdChars

\* the operation has rejected the selector: InvalidUrlError("Invalid
\* format_id"), or, for the tracked operation, which reports through the
\* task, status failed with that error text
RejectedFormatId ==
    \/ exc = [type |-> "InvalidUrlError", msg |-> "Invalid format_id"]
    \/ op = "tracked" /\ task.status = "failed"
                      /\ task.error = "Invalid format_id"

\* C9: for every selector that is empty or holds a character outside the
\* class, each download operation rejects it with "Invalid format_id" and
\* starts no subprocess.
C9_BadFormatIdRejected ==
    BadFormatId(format_id) =>
        /\ spawned = 0 /\ proc = "none"
        /\ pc # "check" => RejectedFormatId

-----------------------------------------------------------------------------
(* URL gate (SpecUrl)                                                      *)

\* hosts the gate must refuse when BLOCK_PRIVATE_NETWORKS is on: the
\* localhost aliases in any case, and the private, loopback and link-local
\* IP literals
PrivateHosts ==
    {"localhost", "LOCALHOST", "LocalHost", "127.0.0.1", "0.0.0.0", "[::1]",
     "10.0.0.1", "192.168.1.1", "169.254.1.1", "[fe80::1]", "[FE80::1]"}

\* what the gate owes a url made of these parts
UrlGateHolds(l, s, h, t) ==
    LET failed == exc.type = "InvalidUrlError"
        passed == exc = NoExc /\ ret.kind = "url"
    IN  /\ lower(s) \notin allowed => failed
        /\ h = "" => failed
        /\ (block /\ h \in PrivateHosts) => failed
        /\ (~block /\ lower(s) \in allowed /\ h # "") => passed
        /\ passed => ret.value = MkUrl(<<>>, s, h, <<>>)

\* C10: normalize_url fails with InvalidUrlError for a scheme outside the
\* allow-list and for a url without host; with BLOCK_PRIVATE_NETWORKS on it
\* fails for the localhost aliases (any case) and for private, loopback and
\* link-local IP literals, with it off those urls succeed when their scheme
\* is allowed; on success the result is the input without its leading and
\* trailing whitespace.
C10_UrlGate ==
    (op = "normalize" /\ pc = "done") =>
        \A l \in Leads, s \in Schemes, h \in Hosts, t \in Trails :
            url = MkUrl(l, s, h, t) => UrlGateHolds(l, s, h, t)

\* a mixed-case localhost alias with surrounding whitespace, refused
C10_Witness ==
    /\ op = "normalize" /\ pc = "done" /\ block
    /\ url = <<" ", "http", "://", "LocalHost", "/v", "\n">>
    /\ exc.type = "InvalidUrlError"

-----------------------------------------------------------------------------
(* Task lifecycle of a tracked download (SpecTracked)                      *)

\* the status changes the lifecycle allows
LifecycleEdges ==
    { <<"pending", "downloading">>, <<"downloading", "merging">>,
      <<"downloading", "failed">>, <<"merging", "completed">>,
      <<"merging", "failed">> }

\* C1: the task starts pending and every status change is one of
\* pending->downloading, downloading->merging, downloading->failed,
\* merging->completed, merging->failed; in particular no status change
\* leaves completed or failed.
C1_LifecycleMonotonic ==
    /\ task.status = "pending"
    /\ [][task'.status # task.status
            => <<task.status, task'.status>> \in LifecycleEdges]_vars

\* C2: a task whose status is completed has progress 100.0, in every
\* reachable state of every interleaving.
C2_CompletedHasFullProgress ==
    task.status = "completed" => task.progress = 10000

\* C3: task.progress never decreases from one state to the next while
\* task.status stays the same.
C3_ProgressMonotonicWithinStatus ==
    [][task'.status = task.status => task'.progress >= task.progress]_vars

\* the subprocess wrote a destination marker, then percentage lines, then a
\* merger marker, and exited 0 leaving one output file
ScenarioRan ==
    /\ Len(transcript) >= 3
    /\ transcript[1] = DestLine
    /\ transcript[Len(transcript)] = MergerLine
    /\ \A i \in 2..(Len(transcript) - 1) : transcript[i].kind = "pct"
    /\ proc = "exited" /\ return_code = 0 /\ files = "one"

\* the operation has returned and the reader thread has ended
TrackedQuiescent == pc \in {"returned", "raised"} /\ rpc \in {"idle", "done"}

\* C4: once a download that ran the scenario has come to rest, the task is
\* completed with progress 100.0, file_path and temp_dir set, and the temp
\* directory still exists.
C4_ScenarioEndsCompleted ==
    (ScenarioRan /\ TrackedQuiescent) =>
        /\ task.status = "completed"
        /\ task.progress = 10000
        /\ task.file_path = OutFileName
        /\ task.temp_dir = TempDirName
        /\ tdir = "exists"

-----------------------------------------------------------------------------
(* The format catalog (SpecCatalog, SpecSort)                              *)

\* the raw record is normalised without an exception
Accepted(raw) == ~format_raises(raw)

\* the id str(format_id or id or "unknown") of a raw record
raw_id(raw) ==
    IF raw.format_id # <<>> THEN raw.format_id
    ELSE IF raw.id # <<>> THEN raw.id ELSE <<"unknown">>

\* index of the first accepted record of raw_formats with the given id
\* (0 when there is none)
FirstSeen(id) ==
    LET hits == { k \in 1..Len(raw_formats) :
                    Accepted(raw_formats[k]) /\ raw_id(raw_formats[k]) = id }
    IN  IF hits = {} THEN 0
        ELSE CHOOSE k \in hits : \A m \in hits : k <= m

\* _normalize_formats has returned its list (held in formats)
Normalized == op = "extract" /\ pc \in {"merge", "sort", "returned"}

SomeValid ==
    \E k \in 1..Len(raw_formats) :
        Accepted(raw_formats[k]) /\ raw_id(raw_formats[k]) # <<"unknown">>

\* C15: _normalize_formats fails, with FormatNotAvailableError, exactly when
\* the input is empty or no record yields a valid format with a real id; a
\* record whose normalisation raises is skipped and the valid records are
\* all returned.
C15_FailsOnlyWhenNothingValid ==
    (op = "extract" /\ pc # "normalize") =>
        /\ (pc = "raised") <=> (raw_formats = <<>> \/ ~SomeValid)
        /\ pc = "raised" => exc.type = "FormatNotAvailableError"
        /\ pc # "raised" =>
              \A k \in 1..Len(raw_formats) :
                  (Accepted(raw_formats[k])
                   /\ raw_id(raw_formats[k]) # <<"unknown">>)
                  => \E i \in 1..Len(formats) :
                        formats[i].id = raw_id(raw_formats[k])

\* a record was skipped for raising and a later valid record was returned
C15_Witness ==
    /\ Normalized /\ Len(raw_formats) >= 2
    /\ ~Accepted(raw_formats[1])
    /\ Len(formats) >= 1

\* the alternatives of a selector: its tokens split at every "/"
RECURSIVE split_alternatives(_, _)
split_alternatives(sel, cur) ==
    IF sel = <<>> THEN <<cur>>
    ELSE IF Head(sel) = "/"
         THEN <<cur>> \o split_alternatives(Tail(sel), <<>>)
         ELSE split_alternatives(Tail(sel), Append(cur, Head(sel)))

\* the alternative constrains the video codec to avc
ConstrainsAvc(alt) ==
    \E k \in 1..Len(alt) : alt[k] \in {"[vcodec^=avc1]", "[vcodec^=avc]"}

\* _create_merged_formats has returned its entries (held in merged_formats)
MergedBuilt == op = "extract" /\ pc \in {"sort", "returned"}

BestLabel == <<Seg(-1, "Best Available (Merged)")>>

\* the number of entries of a list with the given label
CountLabel(fmts, label) ==
    Cardinality({ i \in 1..Len(fmts) : fmts[i].quality_label = label })

\* some input format with a video mime type shows the height in its label
HeightOnVideo(h) ==
    \E i \in 1..Len(formats) :
        /\ formats[i].mime_type[1] = "video/"
        /\ height_match(formats[i].quality_label) = h

\* C17: _create_merged_formats returns exactly one best-available entry
\* and, for each tier, exactly one capped entry if some input format with a
\* video mime type has that height and none otherwise; every entry is
\* video/mp4 with no file size and both only-flags false.
C17_OneEntryPerPresentTier ==
    MergedBuilt =>
        /\ CountLabel(merged_formats, BestLabel) = 1
        /\ \A t \in 1..Len(MERGE_TIERS) :
              CountLabel(merged_formats,
                         MERGE_TIERS[t].label \o <<Seg(-1, " (Merged)")>>)
              = IF HeightOnVideo(MERGE_TIERS[t].height) THEN 1 ELSE 0
        /\ Len(merged_formats)
              = 1 + Cardinality({ t \in 1..Len(MERGE_TIERS) :
                                    HeightOnVideo(MERGE_TIERS[t].height) })
        /\ \A i \in 1..Len(merged_formats) :
              /\ merged_formats[i].mime_type = <<"video/", "mp4">>
              /\ merged_formats[i].filesize_bytes = <<>>
              /\ ~merged_formats[i].is_audio_only
              /\ ~merged_formats[i].is_video_only

\* one tier was present on a video stream, another only on an audio-only
\* stream and on a codec-less stream
C17_Witness ==
    /\ MergedBuilt /\ Len(merged_formats) = 2
    /\ HeightOnVideo(1080)
    /\ \E i \in 1..Len(formats) :
          /\ formats[i].mime_type[1] = "audio/"
          /\ height_match(formats[i].quality_label) = 720
    /\ \E i \in 1..Len(formats) :
          /\ formats[i].mime_type[1] = "application/"
          /\ height_match(formats[i].quality_label) = 480

\* the entry is one of the merged entries of the catalog being built
IsMerged(f) == \E i \in 1..Len(merged_formats) : merged_formats[i] = f

\* the height a merged entry is capped at (0 for the best-available entry)
TierHeight(f) ==
    LET ts == { t \in 1..Len(MERGE_TIERS) :
                  f.quality_label
                  = MERGE_TIERS[t].label \o <<Seg(-1, " (Merged)")>> }
    IN  IF ts = {} THEN 0 ELSE MERGE_TIERS[CHOOSE t \in ts : TRUE].height

\* the height a raw entry shows in its label (0 when it shows none)
LabelHeight(f) ==
    IF height_match(f.quality_label) = -1 THEN 0
    ELSE height_match(f.quality_label)

\* _extract_video_info has returned the catalog (held in ret.value)
CatalogBuilt == op = "extract" /\ pc = "returned"

\* C18: in the catalog _extract_video_info returns, the best-available
\* entry is first, the other merged entries follow in descending tier
\* height, every raw entry comes after every merged entry, and among the raw
\* entries those that are not audio-only come first, in descending height.
C18_CatalogOrder ==
    CatalogBuilt =>
        LET cat == ret.value IN
        /\ cat[1].quality_label = BestLabel /\ IsMerged(cat[1])
        /\ \A i, j \in 2..Len(cat) :
              (i < j /\ IsMerged(cat[i]) /\ IsMerged(cat[j]))
              => TierHeight(cat[i]) > TierHeight(cat[j])
        /\ \A i, j \in 1..Len(cat) :
              (IsMerged(cat[i]) /\ ~IsMerged(cat[j])) => i < j
        /\ \A i, j \in 1..Len(cat) :
              (~IsMerged(cat[i]) /\ ~IsMerged(cat[j])
               /\ ~cat[i].is_audio_only /\ cat[j].is_audio_only) => i < j
        /\ \A i, j \in 1..Len(cat) :
              (i < j /\ ~IsMerged(cat[i]) /\ ~IsMerged(cat[j])
               /\ ~cat[i].is_audio_only /\ ~cat[j].is_audio_only)
              => LabelHeight(cat[i]) >= LabelHeight(cat[j])

\* position of an entry in a list of distinct entries
PosIn(fmts, f) == CHOOSE i \in 1..Len(fmts) : fmts[i] = f

\* C19: _sort_formats keeps the relative order of entries with equal sort
\* key, and sorting a list it has already sorted leaves the list unchanged.
C19_SortStableIdempotent ==
    [][ /\ \A i, j \in 1..Len(formats) :
              (i < j /\ _sort_key(formats[i]) = _sort_key(formats[j]))
              => PosIn(formats', formats[i]) < PosIn(formats', formats[j])
        /\ pc = "sorted" => formats' = formats ]_vars

\* a list of three entries, two of them with equal key, has been sorted a
\* second time
C19_Witness ==
    /\ op = "sort" /\ pc = "resorted" /\ Len(formats) = 3
    /\ _sort_key(formats[2]) = _sort_key(formats[3])
    /\ key_lt(_sort_key(formats[1]), _sort_key(formats[2]))

\* the codec field is present: set, and not "none"
CodecPresent(v) == v \notin {"missing", "none"}

\* C20: a Format made by _normalize_format is never both audio-only and
\* video-only; it is audio-only exactly when the record has an audio codec
\* and no video codec, video-only exactly when it has a video codec and no
\* audio codec.
C20_OnlyFlagsExclusive ==
    Normalized =>
        \A i \in 1..Len(formats) :
            LET raw == raw_formats[FirstSeen(formats[i].id)] IN
            /\ ~(formats[i].is_audio_only /\ formats[i].is_video_only)
            /\ formats[i].is_audio_only
                  <=> (CodecPresent(raw.acodec) /\ ~CodecPresent(raw.vcodec))
            /\ formats[i].is_video_only
                  <=> (CodecPresent(raw.vcodec) /\ ~CodecPresent(raw.acodec))

\* a muxed, a video-only (audio codec not set) and an audio-only record
\* were normalised
C20_Witness ==
    /\ Normalized /\ Len(formats) = 3
    /\ ~formats[1].is_audio_only /\ ~formats[1].is_video_only
    /\ formats[1].mime_type[1] = "video/"
    /\ formats[2].is_video_only
    /\ raw_formats[FirstSeen(formats[2].id)].acodec = "missing"
    /\ formats[3].is_audio_only

-----------------------------------------------------------------------------
(* The result cache (SpecCache)                                            *)

\* the entries stored under the key (at most one)
Stored(c, key) == { i \in 1..Len(c.links) : c.links[i].key = key }

\* the step is a call of get_cached_formats
GetStep == op' = "get_cached_formats" /\ calls' = calls + 1

\* the step is the lookup of a call of fetch_formats
LookupStep == op' = "fetch_formats" /\ calls' = calls + 1

\* the step ends a resolution by storing and returning its catalog
StoreStep == engine_calls' = engine_calls + 1 /\ exc' = NoExc

\* the step ends a resolution with a typed error
FailStep == engine_calls' = engine_calls + 1 /\ exc' # NoExc

\* with caching on, a lookup of an accepted url returns the value stored
\* under its normalised form if less than the TTL has passed since it was
\* stored, and None if the TTL has passed or nothing is stored; a store
\* puts the value under the normalised url
RoundTrip ==
    /\ (GetStep /\ _cache_enabled /\ normalize_url(url', allowed, block).ok) =>
          LET key == normalize_url(url', allowed, block).value
              at  == Stored(formats_cache, key)
          IN  /\ exc' = NoExc
              /\ \A i \in at :
                    IF now - formats_cache.links[i].set_at < ttl_seconds
                    THEN ret' = [kind |-> "VideoInfo",
                                 value |-> formats_cache.links[i].value,
                                 dir |-> "None"]
                    ELSE ret' = NoneRet
              /\ at = {} => ret' = NoneRet
    /\ (StoreStep /\ _cache_enabled) =>
          LET key == normalize_url(url, allowed, block).value IN
          \E i \in Stored(formats_cache', key) :
              /\ formats_cache'.links[i].value = ret'.value
              /\ formats_cache'.links[i].set_at = now
    /\ (StoreStep /\ ~_cache_enabled) =>
          (formats_cache' = formats_cache /\ formats_cache.links = <<>>)

\* C11 as stated: the round trip, and with caching off get_cached_formats
\* returns None for every url and _cache_set_formats stores nothing.
C11_RoundTripEveryUrl ==
    [][ /\ RoundTrip
        /\ (GetStep /\ ~_cache_enabled) => (ret' = NoneRet /\ exc' = NoExc)
      ]_vars

\* C11 amended: the round trip, and with caching off get_cached_formats
\* returns None for every url normalize_url accepts and raises
\* InvalidUrlError for every other url; _cache_set_formats stores nothing.
C11_RoundTripAcceptedUrl ==
    [][ /\ RoundTrip
        /\ (GetStep /\ ~_cache_enabled) =>
              IF normalize_url(url', allowed, block).ok
              THEN ret' = NoneRet /\ exc' = NoExc
              ELSE ret' = NoneRet /\ exc'.type = "InvalidUrlError"
        /\ (GetStep /\ ~normalize_url(url', allowed, block).ok) =>
              (exc'.type = "InvalidUrlError" /\ formats_cache' = formats_cache)
      ]_vars

\* a value stored at an earlier clock value was returned before its TTL
\* had passed, to a url that differs from its key by surrounding whitespace
C11_Witness ==
    /\ op = "get_cached_formats" /\ ret.kind = "VideoInfo"
    /\ url # normalize_url(url, allowed, block).value
    /\ \E i \in Stored(formats_cache, normalize_url(url, allowed, block).value) :
          /\ formats_cache.links[i].set_at < now
          /\ formats_cache.links[i].value = ret.value

\* the cache never holds more entries than the configured capacity, and a
\* store leaves no entry whose TTL has passed
WithinCapacity ==
    /\ Len(formats_cache'.links) <= maxsize
    /\ StoreStep =>
          \A i \in 1..Len(formats_cache'.links) :
              now - formats_cache'.links[i].set_at < ttl_seconds

\* the entries a store discarded although their TTL had not passed
Evicted ==
    { i \in 1..Len(formats_cache.links) :
        /\ now - formats_cache.links[i].set_at < ttl_seconds
        /\ Stored(formats_cache', formats_cache.links[i].key) = {} }

\* the entries a store kept
Survivors ==
    { i \in 1..Len(formats_cache.links) :
        \E j \in 1..Len(formats_cache'.links) :
            formats_cache'.links[j] = formats_cache.links[i] }

\* a store discards unexpired entries only when the cache is full, and no
\* more of them than needed
EvictsWhenFull ==
    (StoreStep /\ Evicted # {}) => Len(formats_cache'.links) = maxsize

\* C12 as stated: the cache stays within capacity, a store drops the
\* expired entries first and then evicts in ascending order of expiry: no
\* entry is evicted while an entry that expires earlier remains.
C12_EvictsByExpiry ==
    [][ /\ WithinCapacity
        /\ EvictsWhenFull
        /\ StoreStep =>
              \A e \in Evicted : \A k \in Survivors :
                  ~(formats_cache.links[k].set_at < formats_cache.links[e].set_at)
      ]_vars

\* C12 amended: the cache stays within capacity, a store drops the expired
\* entries first and then evicts the least recently used entries: no entry
\* is evicted while an entry stored or returned less recently remains.
C12_EvictsLeastRecentlyUsed ==
    [][ /\ WithinCapacity
        /\ EvictsWhenFull
        /\ StoreStep =>
              \A e \in Evicted : \A k \in Survivors :
                  formats_cache.links[e].used < formats_cache.links[k].used
      ]_vars

\* a store into a full cache of two has evicted an entry and kept one that
\* was stored earlier than the new one
C12_Witness ==
    /\ formats_cache.popped >= 1
    /\ maxsize = 2 /\ Len(formats_cache.links) = 2
    /\ formats_cache.links[1].set_at < formats_cache.links[2].set_at

\* an unexpired entry is stored under the key
Live(c, key) ==
    \E i \in Stored(c, key) : now - c.links[i].set_at < ttl_seconds

-----------------------------------------------------------------------------
(* Catalog ids (SpecCatalog)                                               *)

\* number of entries of a catalog that carry the given id
CountId(fmts, id) == Cardinality({ i \in 1..Len(fmts) : fmts[i].id = id })

\* C21: in every VideoInfo _extract_video_info returns, no two formats share
\* an id: a lookup by id selects at most one entry, whatever ids the raw
\* records carry (repeated, missing, under the "id" key)
C21_CatalogIdsUnique ==
    CatalogBuilt =>
        /\ \A i, j \in 1..Len(ret.value) :
              ret.value[i].id = ret.value[j].id => i = j
        /\ \A i \in 1..Len(formats) : CountId(ret.value, formats[i].id) = 1
        /\ \A i \in 1..Len(merged_formats) :
              CountId(ret.value, merged_formats[i].id) = 1

\* a catalog built from records that repeat an id, with two capped tiers next
\* to the best-available entry
C21_Witness ==
    /\ CatalogBuilt
    /\ Len(merged_formats) = 3
    /\ \E i, j \in 1..Len(raw_formats) :
          /\ i < j
          /\ Accepted(raw_formats[i]) /\ Accepted(raw_formats[j])
          /\ raw_id(raw_formats[i]) = raw_id(raw_formats[j])
          /\ raw_id(raw_formats[i]) # FORMAT_ID_UNKNOWN

-----------------------------------------------------------------------------
(* Errors of fetch_formats (SpecFetch)                                     *)

\* the message mentions the keyword, in any letter case
Mentions(m, kw) == substring_in(kw, lower_msg(m))

\* the last fetch_formats call consulted the engine, which raised
ExtractionRaised == op = "fetch_formats" /\ engine.kind = "raise"

\* C24: a failed extraction raises exactly one typed error, chosen by
\* priority: UnsupportedError -> UnsupportedPlatformError; DownloadError
\* mentioning "not found", "unavailable" or "private" -> VideoNotFoundError;
\* else DownloadError mentioning "livestream", or a url containing "/live/"
\* -> YtdlpFailedError; else DownloadError mentioning "format" ->
\* FormatNotAvailableError; anything else -> YtdlpFailedError.  The errors of
\* the URL gate and of the catalog builder arrive unchanged.
C24_FetchErrorPriority ==
    /\ ExtractionRaised =>
         LET c == engine.class
             m == engine.msg
         IN  /\ exc.type \in TypedErrors
             /\ exc.type =
                  IF c = "UnsupportedError" THEN "UnsupportedPlatformError"
                  ELSE IF c # "DownloadError" THEN "YtdlpFailedError"
                  ELSE IF Mentions(m, "not found") \/ Mentions(m, "unavailable")
                          \/ Mentions(m, "private")
                  THEN "VideoNotFoundError"
                  ELSE IF Mentions(m, "livestream") \/ url_has_live(url)
                  THEN "YtdlpFailedError"
                  ELSE IF Mentions(m, "format") THEN "FormatNotAvailableError"
                  ELSE "YtdlpFailedError"
    /\ (op = "fetch_formats" /\ ~normalize_url(url, allowed, block).ok) =>
         /\ exc.type = "InvalidUrlError"
         /\ exc.msg = normalize_url(url, allowed, block).msg
         /\ engine = EngineIdle
    /\ (op = "fetch_formats" /\ engine.kind = "None") =>
         exc.type = "VideoNotFoundError"
    /\ (op = "fetch_formats" /\ engine.kind = "info"
          /\ ~_normalize_formats(engine.info).ok) =>
         /\ exc.type = _normalize_formats(engine.info).error
         /\ exc.msg = _normalize_formats(engine.info).msg
         /\ exc.type = "FormatNotAvailableError"

\* a DownloadError on a live url whose message mentions only "format": the
\* livestream rule wins over the format rule
C24_Witness ==
    /\ ExtractionRaised
    /\ engine.class = "DownloadError"
    /\ engine.msg = "Unable to download video information"
    /\ url_has_live(url)
    /\ exc.type = "YtdlpFailedError"

-----------------------------------------------------------------------------
(* The download endpoint (SpecPost)                                        *)

\* download_video_post holds a catalog, cached or freshly fetched
Resolved == catalog.kind = "VideoInfo"

\* no format of the resolved catalog has the requested id
AbsentFromCatalog ==
    \A i \in 1..Len(catalog.value) : catalog.value[i].id # format_id

\* C22: a download request whose format_id is the id of no format of the
\* resolved catalog fails with FormatNotAvailableError, and nothing has been
\* started for it: no subprocess spawned, no temp directory made
C22_AbsentFormatFailsBeforeSpawn ==
    (Resolved /\ AbsentFromCatalog) =>
        /\ op = "post"
        /\ pc \in {"select", "raised"}
        /\ pc = "raised" => exc.type = "FormatNotAvailableError"
        /\ spawned = 0 /\ proc = "none" /\ tdir = "absent"

\* the selector keyword "best", which would be downloaded as a merged format,
\* refused against a cached catalog that does not list it
C22_Witness ==
    /\ Resolved /\ AbsentFromCatalog
    /\ format_id = <<"best">>
    /\ engine_calls = 1 /\ engine = EngineIdle
    /\ pc = "raised" /\ exc.type = "FormatNotAvailableError"

-----------------------------------------------------------------------------
(* Errors of the download operations (Spec)                                *)

\* C23: every failure of a public operation surfaces as one of the typed
\* errors or as a failed task; a failure to spawn the subprocess is wrapped
\* into YtdlpFailedError and never leaves as a raw exception
C23_TypedErrorsOnly ==
    /\ pc = "raised" => exc.type \in TypedErrors
    /\ (pc = "raised" /\ validated = {"format", "url"} /\ spawned = 0) =>
          exc.type = "YtdlpFailedError"

-----------------------------------------------------------------------------
(* The streamed download (SpecStream)                                       *)

\* the generator has finished after download_format gave it a process
StreamEnded == op = "stream" /\ pc = "ended" /\ spawned = 1

\* the part of C25 about the process itself: once the generator has
\* finished, the subprocess is not running and its status was collected
StreamReaped == StreamEnded => (proc # "running" /\ reaped)

\* C25: however _stream_download ends (end of file, an exception while
\* pumping, a disconnect), when the generator has finished the subprocess is
\* not running, has been waited on, and its stdout and stderr pipes are
\* closed.
C25_StreamCleansUp ==
    StreamEnded => (proc # "running" /\ reaped /\ pipes_open = {})

\* the bytes of stderr the drainer has taken off the pipe so far
stderr_consumed == stderr_written - Len(stderr_pipe)

\* the most recent n of the bytes 1..k, in order
MostRecent(k, n) == [i \in 1..Min(k, n) |-> k - Min(k, n) + i]

\* C26: the stderr buffer is a ring buffer: it holds the most recent
\* stderr_limit bytes the drainer has read.
C26_BufferKeepsMostRecent ==
    op = "stream" =>
        stderr_buffer = MostRecent(stderr_consumed, stderr_limit)

\* C27: the stderr buffer never holds more than stderr_limit bytes; the
\* drainer ends only at end of file or after the stop signal, so while
\* stdout is pumped and the subprocess has filled its stderr pipe the
\* drainer is still running and has a read to make.
C27_BufferBoundedDrainerRuns ==
    op = "stream" =>
        /\ Len(stderr_buffer) <= stderr_limit
        /\ dpc = "done" =>
              \/ stderr_stop
              \/ stderr_pipe = <<>> /\ proc # "running"
        /\ (pc \in {"pump", "yield"} /\ proc = "running"
               /\ Len(stderr_pipe) = PipeCapacity) =>
              /\ dpc \in {"loop", "read"}
              /\ ~stderr_stop
              /\ Len(stderr_pipe) >= read_size

\* the drainer has taken bytes off the pipe beyond the full buffer while the
\* generator is still pumping stdout
C27_Witness ==
    /\ op = "stream" /\ pc = "pump" /\ proc = "running"
    /\ Len(stderr_buffer) = stderr_limit
    /\ stderr_consumed > stderr_limit
    /\ dpc \in {"loop", "read"}

-----------------------------------------------------------------------------
(* Task fields during a tracked download (SpecTracked)                      *)

\* C28: every write to a field of the task is a step of the stdout reader
\* made while the reader holds the registry's lock; no other thread writes
\* task fields and no write happens outside the lock.
C28_OnlyReaderWritesUnderLock ==
    [][task' # task => (Reader /\ lock_owner = "reader")]_vars

\* the reader has taken a line whose percentage token is not a number
BadLineRead ==
    \E i \in 1..(Len(transcript) - Len(pipe)) : transcript[i] = BadPctLine

\* C29: a stdout line whose parsing raises never aborts a tracked download:
\* the step that reads it leaves the task's status alone, and once a
\* download whose subprocess exited 0 with an output file has come to rest
\* the task is completed.
C29_BadLineHarmless ==
    /\ [][R_BadPct => task'.status = task.status]_vars
    /\ [](( /\ BadLineRead /\ TrackedQuiescent
            /\ return_code = 0 /\ files = "one" /\ proc = "exited" ) =>
             task.status = "completed")

\* the progress C30 states for raw percentage r (hundredths of a percent)
C30_Expected(r, two, idx) ==
    CASE two /\ idx = 0  -> 65 * r
      [] two /\ idx >= 1 -> 6500 + 25 * r
      [] ~two            -> 90 * r
      [] OTHER           -> -1

\* C30: a percentage line with raw value r sets progress to 0.65 r (two
\* streams, stream index 0), 65 + 0.25 r (two streams, stream index >= 1) or
\* 0.90 r (single stream) and then caps it at 91.0; no percentage line sets
\* progress above 91.0, and progress becomes 100.0 only in the completion
\* step, after exit code 0 and an output file were confirmed.
C30_ProgressRescaled ==
    [][ /\ R_Pct =>
             LET e == C30_Expected(line'.raw, is_two_stream(format_id),
                                   stream_index)
             IN  /\ e # -1 => task'.progress = e
                 /\ task'.progress <= 9100
        /\ R_PctCap => task'.progress = Min(task.progress, 9100)
        /\ (task'.progress = 10000 /\ task.progress # 10000) =>
             /\ pc = "set_progress" /\ pc' = "set_status"
             /\ return_code = 0 /\ files = "one"
      ]_vars

\* the reader has just rescaled a percentage line of the second stream of a
\* two-stream request
C30_Witness ==
    /\ op = "tracked" /\ rpc = "pct_cap"
    /\ is_two_stream(format_id) /\ stream_index >= 1
    /\ line.kind = "pct" /\ line.raw = 100
    /\ task.progress = 9000

-----------------------------------------------------------------------------
(* The line classifier of the reader (SpecTracked)                          *)

\* the lines the reader has taken off the pipe
Consumed == SubSeq(transcript, 1, Len(transcript) - Len(pipe))

\* how many of them are destination markers
DestCount ==
    Cardinality({ i \in 1..Len(Consumed) : Consumed[i].kind = "dest" })

\* the reader is between two lines, the last one it handled is of kind k,
\* and the calling thread is still waiting for the subprocess (it has
\* written nothing since the reader started)
JustHandled(k) ==
    /\ op = "tracked" /\ pc = "wait" /\ rpc = "read"
    /\ Consumed # <<>> /\ Consumed[Len(Consumed)].kind = k

\* C31: the k-th destination marker of a two-stream request sets phase to
\* video when k = 1 and to audio when k >= 2, and leaves the phase of a
\* single-stream request as it was (empty); a merger marker sets status
\* merging, phase merge and progress 92.0; after either marker speed and eta
\* are empty; a line matching no pattern changes no task field.
C31_LineClassifier ==
    /\ [](JustHandled("dest") =>
            /\ is_two_stream(format_id) =>
                  task.phase = IF DestCount = 1 THEN "video" ELSE "audio"
            /\ ~is_two_stream(format_id) =>
                  (task.phase = "" \/ task.phase = "merge")
            /\ task.speed = "" /\ task.eta = "")
    /\ [](JustHandled("merger") =>
            /\ task.status = "merging" /\ task.phase = "merge"
            /\ task.progress = 9200
            /\ task.speed = "" /\ task.eta = "")
    /\ [][ /\ (R_Destination /\ ~is_two_stream(format_id)) =>
                 task'.phase = task.phase
           /\ R_Other => task' = task ]_vars

\* the second destination marker of a two-stream request has just been
\* handled while the caller waits
C31_Witness ==
    /\ JustHandled("dest")
    /\ is_two_stream(format_id)
    /\ DestCount = 2
    /\ task.phase = "audio"

-----------------------------------------------------------------------------
(* The download command (SpecCommand)                                       *)

\* the argument list has the flag
HasFlag(cmd, flag) == \E i \in 1..Len(cmd) : cmd[i] = <<flag>>

\* --merge-output-format mp4, and a --ppa value that mentions the audio
\* transcode and the fragmented-MP4 flags
HasMergeFlags(cmd) ==
    /\ \E i \in 1..(Len(cmd) - 1) :
          cmd[i] = <<"--merge-output-format">> /\ cmd[i + 1] = <<"mp4">>
    /\ \E j \in 1..(Len(cmd) - 1) :
          /\ cmd[j] = <<"--ppa">>
          /\ \A w \in {"-c:a aac", "frag_keyframe", "empty_moov"} :
                \E k \in 1..Len(cmd[j + 1]) : cmd[j + 1][k] = w

\* C34: the command build_download_command returns has the merge flags if
\* and only if format_id is a merged selector (contains "+"); for a
\* single-stream id neither --merge-output-format nor --ppa appears.
C34_MergeFlagsIffMerged ==
    (op = "command" /\ pc = "returned") =>
        /\ HasMergeFlags(ret.value) <=> is_two_stream(format_id)
        /\ ~is_two_stream(format_id) =>
              /\ ~HasFlag(ret.value, "--merge-output-format")
              /\ ~HasFlag(ret.value, "--ppa")

-----------------------------------------------------------------------------
(* After download_merged_with_progress has returned (SpecTracked)           *)

\* download_merged_with_progress has returned after starting a subprocess
TrackedReturned ==
    op = "tracked" /\ pc \in {"returned", "raised"} /\ spawned = 1

\* C35: once download_merged_with_progress has returned, the stdout reader
\* thread has ended and no field of the task is written any more.
C35_NoWriteAfterReturn ==
    /\ [](TrackedReturned => rpc \in {"idle", "done"})
    /\ [][TrackedReturned => task' = task]_vars

\* C36: the reader keeps reading stdout until end of file on every path:
\* when the reader thread has ended, the subprocess is gone and no line it
\* wrote is left unread in the pipe.
C36_ReaderReadsToEof ==
    (op = "tracked" /\ rpc = "done") => (proc # "running" /\ pipe = <<>>)

\* C37: a task whose status is completed has file_path, temp_dir and
\* file_size already written.
C37_CompletedHasFile ==
    (op = "tracked" /\ task.status = "completed") =>
        /\ task.file_path = OutFileName
        /\ task.temp_dir = TempDirName
        /\ task.file_size = OutFileSize

\* the supervisor has just written status = completed
C37_Witness ==
    /\ op = "tracked" /\ pc = "set_speed_eta"
    /\ task.status = "completed"
    /\ task.file_path = OutFileName

-----------------------------------------------------------------------------
(* Sizes of a two-stream download (SpecReader)                              *)

\* the reader is handling a percentage line of the audio stream that
\* carries a total size, and the line before it was such a line with the
\* same size
RepeatedAudioSize ==
    /\ rpc = "pct_rest" /\ is_two_stream(format_id) /\ stream_index >= 1
    /\ line.size > 0
    /\ Len(Consumed) >= 2
    /\ Consumed[Len(Consumed) - 1].kind = "pct"
    /\ Consumed[Len(Consumed) - 1].size = line.size

\* C39: in a two-stream download the audio stream's size is added to
\* total_bytes at most once: a further audio percentage line reporting the
\* same total size leaves total_bytes as it is, and downloaded_bytes never
\* exceeds total_bytes.
C39_AudioSizeAddedOnce ==
    /\ [][(RepeatedAudioSize /\ R_PctRest) =>
             task'.total_bytes = task.total_bytes]_vars
    /\ [](task.downloaded_bytes <= task.total_bytes)

-----------------------------------------------------------------------------
(* The task registry (SpecRegistry)                                         *)

\* C32: under every interleaving with create_task, remove_task and download
\* completion, cleanup_stale removes only tasks whose age exceeds max_age
\* at the time of the removal (never a task re-created under the id of a
\* stale one during the sweep), and when it has dealt with a removed task
\* the temp directory of that task's download is not on disk.
C32_SweepRemovesOnlyStale ==
    [][ /\ (SW_Remove /\ sw_task' # 0) =>
              now - heap[sw_task'].created_at > max_age
        /\ (SW_Rmtree /\ sw_task # 0) => sw_task \notin dirs'
      ]_vars

\* the sweep removes the entry of id
SweepStep(id) == SW_Remove /\ stale_ids # <<>> /\ Head(stale_ids) = id

\* what create_task, get_task and remove_task return and change, and which
\* steps end the life of an entry (replace: a later create_task under the
\* same id counts as one)
RegistryRoundTrip(replace) ==
    \A id \in TaskIds :
      /\ RG_Create(id) =>
            /\ got'.rec = Len(heap) + 1 /\ _tasks'[id] = got'.rec
            /\ heap'[got'.rec].status = "pending"
            /\ heap'[got'.rec].progress = 0
            /\ heap'[got'.rec].file_path = 0
      /\ RG_Get(id) => got'.rec = _tasks[id] /\ _tasks' = _tasks
      /\ RG_Remove(id) =>
            /\ got'.rec = _tasks[id] /\ _tasks'[id] = 0
            /\ \A other \in TaskIds \ {id} : _tasks'[other] = _tasks[other]
            /\ dirs' = dirs /\ heap' = heap
      /\ (_tasks[id] # 0 /\ _tasks'[id] # _tasks[id]) =>
            \/ RG_Remove(id) \/ SweepStep(id)
            \/ replace /\ RG_Create(id)
      /\ (_tasks[id] = 0 /\ _tasks'[id] # 0) => RG_Create(id)

\* C33 as stated: the record create_task(id) registered stays the entry of
\* id until remove_task(id) or a sweep removes it.
C33_RoundTripAsStated == [][RegistryRoundTrip(FALSE)]_vars

\* C33: create_task(id) returns a pending task with progress 0 and no
\* file_path; get_task(id) returns the record registered under id (None
\* when there is none), which stays the same record until remove_task(id),
\* a sweep or a later create_task(id) replaces it; remove_task returns the
\* removed record (None when absent), changes no other entry and deletes no
\* temp directory.
C33_RegistryRoundTrip == [][RegistryRoundTrip(TRUE)]_vars

\* remove_task has returned a completed task whose temp directory is still
\* on disk, and the id has no entry any more
C33_Witness ==
    /\ op = "registry"
    /\ got.call = "remove" /\ got.rec # 0
    /\ _tasks[got.id] = 0
    /\ heap[got.rec].temp_dir # 0
    /\ heap[got.rec].temp_dir \in dirs

\* the temp directory d is accounted for: its download is still running,
\* the sweep is about to delete it, or it is recorded in the temp_dir field
\* of a task that is in the registry
Covered(d) ==
    \/ dl[d] = "running"
    \/ sw_task = d
    \/ \E id \in TaskIds : _tasks[id] # 0 /\ heap[_tasks[id]].temp_dir = d

\* C38: a temp directory made by a tracked download stays accounted for
\* as long as it is on disk (so that cleanup_stale reclaims it in the end),
\* unless remove_task hands its task to a caller: this holds when the sweep
\* removes a task that is still downloading and when create_task replaces
\* an existing id.
C38_TempDirsReclaimable ==
    [][ \A d \in dirs \cap dirs' :
           (Covered(d) /\ ~Covered(d)') => \E id \in TaskIds : RG_Remove(id)
      ]_vars
=============================================================================
